---------------------------- MODULE Spec2Model ----------------------------
(***************************************************************************)
(* Model of the relevx research engine: the orchestrator                   *)
(* executeResearchForProject (research-engine/orchestrator.ts), the search *)
(* history store, URL normalisation, the frequency guard and the           *)
(* scheduler's executeProjectResearch wrapper.                              *)
(*                                                                         *)
(* Spec is the research run.  SpecHistory, SpecUrl, SpecSched and          *)
(* SpecRetryLive exercise the history store, the deduplication keys, the   *)
(* scheduling utilities and the retry wrappers on their own.               *)
(*                                                                         *)
(* Strings that the code inspects character by character (URLs) are        *)
(* sequences of tokens; every token is a piece of text the code never      *)
(* splits ("https://", "www.", "ex.com", "/", "a", "?x=1", "#f").          *)
(***************************************************************************)
EXTENDS Integers, Sequences, FiniteSets, TLC

(***************************************************************************)
(* Bounds of the model                                                     *)
(***************************************************************************)
\* number of executeResearchForProject calls in one behaviour
MaxCalls == 1
\* number of clock ticks (each tick is TickMs of wall-clock time)
MaxTicks == 1

(***************************************************************************)
(* Program constants                                                       *)
(***************************************************************************)
\* validateFrequency: const oneDayMs = 24 * 60 * 60 * 1000
oneDayMs == 24 * 60 * 60 * 1000
\* const maxIterations = options?.maxIterations || 3
DefaultMaxIterations == 3
\* preFilteredResults.slice(0, 25)
ExtractionCap == 25

\* the clock advances in steps of 24 hours
TickMs == 24 * 60 * 60 * 1000
\* Date.now() of the first state
StartClock == TickMs

None == "none"

\* a document that does not exist
NoDoc == [exists |-> FALSE]

\* no outcome yet
NoResult == [kind |-> "none"]

\* report is undefined
NoReport == [exists |-> FALSE]

\* deliveryLogId is undefined
NoLogId == 0

(***************************************************************************)
(* URL strings                                                             *)
(***************************************************************************)
Scheme == "https://"
HostTokens == {"www.", "WWW.", "ex.com", "EX.com"}
PathTokens == {"/", "a", "A", "b"}
QueryTok == "?x=1"
FragTok == "#f"

\* String.prototype.toLowerCase, token by token
LowerTok(t) ==
  CASE t = "WWW." -> "www."
    [] t = "EX.com" -> "ex.com"
    [] t = "A" -> "a"
    [] OTHER -> t

toLowerCase(s) == [i \in 1..Len(s) |-> LowerTok(s[i])]

\* s.replace(/\/$/, ""): drops one "/" at the very end of the string
StripTrailingSlash(s) ==
  IF Len(s) > 0 /\ s[Len(s)] = "/" THEN SubSeq(s, 1, Len(s) - 1) ELSE s

\* the orchestrator's deduplication key: item.url.toLowerCase().replace(/\/$/, "")
OrchKey(url) == StripTrailingSlash(toLowerCase(url))

\* index of the first token of s at or after position i that is in set T, or Len(s)+1
RECURSIVE FirstIn(_, _, _)
FirstIn(s, i, T) ==
  IF i > Len(s) THEN Len(s) + 1
  ELSE IF s[i] \in T THEN i
  ELSE FirstIn(s, i + 1, T)

\* new URL(url) succeeds: a scheme followed by a non-empty host made of host labels
Parseable(url) ==
  /\ Len(url) >= 2
  /\ url[1] = Scheme
  /\ LET hostEnd == FirstIn(url, 2, {"/", QueryTok, FragTok}) - 1
     IN /\ hostEnd >= 2
        /\ \A i \in 2..hostEnd : url[i] \in HostTokens
        /\ url[hostEnd] \in {"ex.com", "EX.com"}

\* urlObj.hostname: the host labels, lower-cased by the URL parser
UrlHostname(url) ==
  LET hostEnd == FirstIn(url, 2, {"/", QueryTok, FragTok}) - 1
  IN toLowerCase(SubSeq(url, 2, hostEnd))

\* urlObj.pathname: from the first "/" up to the query or fragment; "/" when absent
UrlPathname(url) ==
  LET hostEnd == FirstIn(url, 2, {"/", QueryTok, FragTok}) - 1
      pathEnd == FirstIn(url, hostEnd + 1, {QueryTok, FragTok}) - 1
  IN IF pathEnd <= hostEnd THEN <<"/">> ELSE SubSeq(url, hostEnd + 1, pathEnd)

\* normalizeUrl of brave-search.ts
normalizeUrl(url) ==
  IF Parseable(url)
  THEN LET h0 == UrlHostname(url)
           hostname == IF Len(h0) > 0 /\ h0[1] = "www." THEN Tail(h0) ELSE h0
           p0 == UrlPathname(url)
           pathname == IF p0[Len(p0)] = "/" /\ Len(p0) > 1
                       THEN SubSeq(p0, 1, Len(p0) - 1) ELSE p0
       IN <<Scheme>> \o hostname \o pathname
  ELSE toLowerCase(url)


(***************************************************************************)
(* The inputs of the model: the URLs the search provider can return, the   *)
(* queries the LLM can generate, the verdicts it can give                  *)
(***************************************************************************)
U1 == <<Scheme, "ex.com", "/", "a">>
\* same page as U1, with a trailing slash
U2 == <<Scheme, "ex.com", "/", "a", "/">>
\* same page as U1, with a query string
U3 == <<Scheme, "ex.com", "/", "a", QueryTok>>
\* another page, host written with www.
U4 == <<Scheme, "www.", "ex.com", "/", "b">>
\* a page whose title and text contain the project's excluded keyword
U5 == <<Scheme, "ex.com", "/", "b", "/", "a">>

Urls == {U1, U2, U3, U4, U5}

\* result.title / result.description of a search result contain the excluded keyword
TitleHasExcludedKeyword(url) == url = U5

\* the queries llmProvider.generateSearchQueries returns
GeneratedQueries == <<"q1", "q2">>

\* what searchWithRetry answers for each query of an iteration: the results, or
\* a failure after its retries
SearchMenu ==
  { [q \in {"q1", "q2"} |->
       IF q = "q1" THEN [ok |-> TRUE, results |-> <<U1, U2>>]
                   ELSE [ok |-> TRUE, results |-> <<U3>>]],
    [q \in {"q1", "q2"} |->
       IF q = "q1" THEN [ok |-> TRUE, results |-> <<U4>>]
                   ELSE [ok |-> FALSE, results |-> << >>]],
    [q \in {"q1", "q2"} |->
       IF q = "q1" THEN [ok |-> TRUE, results |-> <<U5>>]
                   ELSE [ok |-> TRUE, results |-> << >>]] }

\* llmProvider.filterSearchResults: not implemented, rejects, or keeps some candidates
FilterMenu == { "absent", "throws", "keepAll", "dropFirst" }

\* extractMultipleContents outcomes per URL: fetch failed, content extracted,
\* content extracted that contains the excluded keyword
ExtractionMenu ==
  { [u \in Urls |-> "ok"],
    [u \in Urls |-> CASE u = U1 -> "failed" [] u = U4 -> "spam" [] OTHER -> "ok"] }

\* analyzeRelevancy answers: <<score, isRelevant>> per URL, and whether the
\* answer repeats its first entry
VerdictMenu ==
  { [ of |-> [u \in Urls |-> IF u \in {U1, U2} THEN <<70, TRUE>> ELSE <<90, TRUE>>],
      repeatFirst |-> FALSE ],
    [ of |-> [u \in Urls |-> IF u \in {U1, U2} THEN <<70, TRUE>> ELSE <<90, TRUE>>],
      repeatFirst |-> TRUE ],
    [ of |-> [u \in Urls |-> CASE u \in {U1, U2} -> <<90, FALSE>>
                               [] u = U3 -> <<50, TRUE>>
                               [] OTHER -> <<50, FALSE>>],
      repeatFirst |-> FALSE ] }

\* the user document has an email address
UserHasEmail == TRUE

\* the project document as created by the web client (lib/projects.ts)
NewProject ==
  [ exists |-> TRUE, status |-> "active", lastRunAt |-> 0, nextRunAt |-> 0, lastError |-> None,
    frequency |-> "daily", deliveryTime |-> [hours |-> 0, minutes |-> 0], timezone |-> 0,
    excludedKeywords |-> <<"spam">>, requiredKeywords |-> << >>,
    resultsDestination |-> "email", deliveryEmail |-> FALSE,
    settings |-> [relevancyThreshold |-> 60, minResults |-> 2, maxResults |-> 2] ]

\* ResearchOptions of a call; 0 and FALSE stand for an absent field
NoOptions ==
  [ ignoreFrequencyCheck |-> FALSE, maxIterations |-> 0, minResults |-> 0,
    maxResults |-> 0, relevancyThreshold |-> 0, providers |-> FALSE ]

\* the options scripts call with (the scheduler passes none)
OptionsMenu ==
  { [NoOptions EXCEPT !.ignoreFrequencyCheck = TRUE, !.providers = TRUE,
                      !.maxIterations = 2, !.minResults = 1] }

(***************************************************************************)
(* Helpers on sequences                                                    *)
(***************************************************************************)
Range(s) == { s[i] : i \in 1..Len(s) }

Min(a, b) == IF a < b THEN a ELSE b

\* Array.prototype.slice(0, n) for n >= 0
Slice0(s, n) == SubSeq(s, 1, Min(n, Len(s)))

\* array.flatMap over a sequence of sequences
RECURSIVE Flatten(_)
Flatten(ss) == IF ss = << >> THEN << >> ELSE Head(ss) \o Flatten(Tail(ss))

\* a || b of JavaScript on numbers, 0 standing for undefined
OrElse(a, b) == IF a # 0 THEN a ELSE b

(***************************************************************************)
(* Scheduling utilities (utils/scheduling.ts)                              *)
(***************************************************************************)
\* every cadence requires its own period to have elapsed
validateFrequency_ByCadence(frequency, lastRunAt, t) ==
  IF lastRunAt = 0 THEN TRUE
  ELSE t - lastRunAt >= (IF frequency = "daily" THEN oneDayMs ELSE 7 * oneDayMs)

\* validateFrequency(frequency, lastRunAt) evaluated at Date.now() = t
validateFrequency(frequency, lastRunAt, t) ==
  IF lastRunAt = 0 THEN TRUE ELSE t - lastRunAt >= oneDayMs

\* Date values inside calculateNextRunAt are counted in minutes since the epoch:
\* the function clears seconds and milliseconds of the time it returns
minuteMs == 60 * 1000
minutesPerDay == 24 * 60

\* days of the months of 1970, the year of the model's clock
MonthLengths == << 31, 28, 31, 30, 31, 30, 31, 31, 30, 31, 30, 31 >>

\* days of the year before month m (1-based)
RECURSIVE DaysBefore(_)
DaysBefore(m) == IF m = 1 THEN 0 ELSE DaysBefore(m - 1) + MonthLengths[m - 1]

\* month (1-based) of day number d of the year (0-based)
RECURSIVE MonthOf(_, _)
MonthOf(d, m) == IF d < DaysBefore(m) + MonthLengths[m] THEN m ELSE MonthOf(d, m + 1)

\* date-fns add(date, { months: 1 }): same day of the next month, or its last day
AddMonth(date) ==
  LET d == date \div minutesPerDay
      m == MonthOf(d, 1)
      dayOfMonth == d - DaysBefore(m) + 1
  IN (DaysBefore(m + 1) + Min(dayOfMonth, MonthLengths[m + 1]) - 1) * minutesPerDay
       + (date % minutesPerDay)

\* addFrequencyPeriod(date, frequency)
addFrequencyPeriod(date, frequency) ==
  CASE frequency = "daily" -> date + minutesPerDay
    [] frequency = "weekly" -> date + 7 * minutesPerDay
    [] frequency = "monthly" -> AddMonth(date)

\* toZonedTime(date, timezone): the wall clock of the zone; a timezone is its
\* offset from UTC in minutes (zones without daylight saving time)
toZonedTime(date, timezone) == date + timezone

\* fromZonedTime(date, timezone)
fromZonedTime(date, timezone) == date - timezone

\* set(date, { hours, minutes, seconds: 0, milliseconds: 0 })
SetTime(date, hours, minutes) ==
  (date \div minutesPerDay) * minutesPerDay + hours * 60 + minutes

\* while (!isAfter(nextRunInUserTz, nowInUserTz)) nextRunInUserTz = addFrequencyPeriod(...)
RECURSIVE EnsureFuture(_, _, _)
EnsureFuture(nextRunInUserTz, nowInUserTz, frequency) ==
  IF nextRunInUserTz > nowInUserTz THEN nextRunInUserTz
  ELSE EnsureFuture(addFrequencyPeriod(nextRunInUserTz, frequency), nowInUserTz, frequency)

\* const now = new Date(): the lastRunAt argument is not read
ReferenceTime(lastRunAt, t) == t

\* calculateNextRunAt(frequency, deliveryTime, timezone, lastRunAt) evaluated at
\* Date.now() = t (ms); deliveryTime is [hours, minutes], lastRunAt is in ms with
\* 0 for undefined; the timestamp returned is in minutes since the epoch
calculateNextRunAt(frequency, deliveryTime, timezone, lastRunAt, t) ==
  LET nowInUserTz == toZonedTime(ReferenceTime(lastRunAt, t) \div minuteMs, timezone)
      atDeliveryTime == SetTime(nowInUserTz, deliveryTime.hours, deliveryTime.minutes)
      nextRunInUserTz ==
        IF ~(atDeliveryTime > nowInUserTz)
        THEN addFrequencyPeriod(atDeliveryTime, frequency)
        ELSE atDeliveryTime
  IN fromZonedTime(EnsureFuture(nextRunInUserTz, nowInUserTz, frequency), timezone)

(***************************************************************************)
(* Search history store (getSearchHistory / updateSearchHistory)           *)
(***************************************************************************)
\* the document getSearchHistory creates on first access
newHistory ==
  [ exists |-> TRUE, processedUrls |-> << >>, urlIndex |-> {},
    queryPerformance |-> << >>, queryIndex |-> << >>,
    totalUrlsProcessed |-> 0, totalSearchesExecuted |-> 0 ]

\* the document getSearchHistory overwrites the stored one with, whatever it holds
getSearchHistory_Recreate(h) == newHistory

\* getSearchHistory(userId, projectId) on the stored document h: the document
\* itself when it exists, else the new document, which is also stored
getSearchHistory(h) == IF h.exists THEN h ELSE newHistory

\* (relevant / total) * 100 as the fraction <<numerator, denominator>>; 0 when total = 0
SuccessRate(relevant, total) ==
  IF total > 0 THEN <<relevant * 100, total>> ELSE <<0, 1>>

\* a search by the URL as found instead of the normalized URL
RECURSIVE FindUrl_ByUrl(_, _, _)
FindUrl_ByUrl(s, n, i) ==
  IF i > Len(s) THEN 0
  ELSE IF s[i].url = n THEN i
  ELSE FindUrl_ByUrl(s, n, i + 1)

\* position of the first element of s satisfying normalizedUrl = n, or 0 (Array.find)
RECURSIVE FindUrl(_, _, _)
FindUrl(s, n, i) ==
  IF i > Len(s) THEN 0
  ELSE IF s[i].normalizedUrl = n THEN i
  ELSE FindUrl(s, n, i + 1)

\* an existing entry takes the inclusion flag of the new URL
RECURSIVE UpsertUrls_OverwriteIncluded(_, _)
UpsertUrls_OverwriteIncluded(st, newUrls) ==
  IF newUrls = << >> THEN st
  ELSE LET newUrl == Head(newUrls)
           k == FindUrl(st.urls, newUrl.normalizedUrl, 1)
       IN IF k # 0
          THEN UpsertUrls_OverwriteIncluded(
                 [st EXCEPT !.urls[k].timesFound = @ + 1,
                            !.urls[k].lastRelevancyScore = newUrl.lastRelevancyScore,
                            !.urls[k].wasIncluded = newUrl.wasIncluded],
                 Tail(newUrls))
          ELSE UpsertUrls_OverwriteIncluded(
                 [urls |-> Append(st.urls, newUrl),
                  index |-> st.index \cup {newUrl.normalizedUrl}],
                 Tail(newUrls))

\* the loop over newUrls of updateSearchHistory; st = [urls, index]
RECURSIVE UpsertUrls(_, _)
UpsertUrls(st, newUrls) ==
  IF newUrls = << >> THEN st
  ELSE LET newUrl == Head(newUrls)
           k == FindUrl(st.urls, newUrl.normalizedUrl, 1)
       IN IF k # 0
          THEN UpsertUrls(
                 [st EXCEPT !.urls[k].timesFound = @ + 1,
                            !.urls[k].lastRelevancyScore = newUrl.lastRelevancyScore,
                            !.urls[k].wasIncluded = @ \/ newUrl.wasIncluded],
                 Tail(newUrls))
          ELSE UpsertUrls(
                 [urls |-> Append(st.urls, newUrl),
                  index |-> st.index \cup {newUrl.normalizedUrl}],
                 Tail(newUrls))

\* an existing entry keeps the success rate it had
RECURSIVE UpsertQueries_StaleRate(_, _)
UpsertQueries_StaleRate(st, entries) ==
  IF entries = << >> THEN st
  ELSE LET e == Head(entries)
       IN IF e.query \in DOMAIN st.index
          THEN LET k == st.index[e.query] + 1
               IN UpsertQueries_StaleRate(
                    [st EXCEPT !.perf[k] =
                       [ query |-> e.query,
                         timesUsed |-> st.perf[k].timesUsed + 1,
                         urlsFound |-> st.perf[k].urlsFound + e.total,
                         relevantUrlsFound |-> st.perf[k].relevantUrlsFound + e.relevant,
                         successRate |-> st.perf[k].successRate ]],
                    Tail(entries))
          ELSE UpsertQueries_StaleRate(
                 [perf |-> Append(st.perf,
                     [ query |-> e.query, timesUsed |-> 1,
                       urlsFound |-> e.total, relevantUrlsFound |-> e.relevant,
                       successRate |-> SuccessRate(e.relevant, e.total) ]),
                  index |-> (e.query :> Len(st.perf)) @@ st.index],
                 Tail(entries))

\* the loop over queryPerformance.entries() of updateSearchHistory; st = [perf, index];
\* queryIndex holds 0-based array positions, perf is a 1-based sequence
RECURSIVE UpsertQueries(_, _)
UpsertQueries(st, entries) ==
  IF entries = << >> THEN st
  ELSE LET e == Head(entries)
       IN IF e.query \in DOMAIN st.index
          THEN LET k == st.index[e.query] + 1
                   urlsFound == st.perf[k].urlsFound + e.total
                   relevantUrlsFound == st.perf[k].relevantUrlsFound + e.relevant
               IN UpsertQueries(
                    [st EXCEPT !.perf[k] =
                       [ query |-> e.query,
                         timesUsed |-> st.perf[k].timesUsed + 1,
                         urlsFound |-> urlsFound,
                         relevantUrlsFound |-> relevantUrlsFound,
                         successRate |-> SuccessRate(relevantUrlsFound, urlsFound) ]],
                    Tail(entries))
          ELSE UpsertQueries(
                 [perf |-> Append(st.perf,
                     [ query |-> e.query, timesUsed |-> 1,
                       urlsFound |-> e.total, relevantUrlsFound |-> e.relevant,
                       successRate |-> SuccessRate(e.relevant, e.total) ]),
                  index |-> (e.query :> Len(st.perf)) @@ st.index],
                 Tail(entries))

\* the document written by updateSearchHistory(userId, projectId, newUrls, queryPerformance)
\* on the history h read by its getSearchHistory call
updateSearchHistory(h, newUrls, queryPerformance) ==
  LET u == UpsertUrls([urls |-> h.processedUrls, index |-> h.urlIndex], newUrls)
      q == UpsertQueries([perf |-> h.queryPerformance, index |-> h.queryIndex],
                         queryPerformance)
  IN [ exists |-> TRUE, processedUrls |-> u.urls, urlIndex |-> u.index,
       queryPerformance |-> q.perf, queryIndex |-> q.index,
       totalUrlsProcessed |-> Len(u.urls),
       totalSearchesExecuted |-> h.totalSearchesExecuted + Len(queryPerformance) ]

(***************************************************************************)
(* State                                                                   *)
(***************************************************************************)
VARIABLES
  defaultProviders,  \* defaultLLMProvider and defaultSearchProvider are set
  now,               \* Date.now()
  ticks,             \* clock ticks taken
  project,           \* the project document, NoDoc when it does not exist
  history,           \* the searchHistory document, NoDoc when it does not exist
  searchResults,     \* the searchResults collection: set of <<call, url>>
  deliveryLogs,      \* the deliveryLogs collection: set of [call, status]
  emails,            \* calls for which sendReportEmail was invoked
  calls,             \* executeResearchForProject calls made so far
  pc,                \* position of the call in progress
  run,               \* local variables of the call in progress
  result,            \* outcome of the last completed call
  obs,               \* observations about the call in progress (history variables)
  urlIn,             \* the URL string handed to the deduplication-key functions
  sched,             \* the last call of a scheduling utility: arguments and result
  retry,             \* the call of a retry wrapper in progress
  upd,               \* the last updateSearchHistory call: arguments and the document it read
  cron,              \* the scheduler process: its project documents and its jobs in flight
  brave              \* brave-search.ts: lastRequestTime and the searchWeb calls in flight

vars == << defaultProviders, now, ticks, project, history, searchResults,
           deliveryLogs, emails, calls, pc, run, result, obs,
           urlIn, sched, retry, upd, cron, brave >>

\* the variables the research run never touches
fnVars == << urlIn, sched, retry, upd, cron, brave >>

\* the variables of the scheduler process and of the Brave client
svcVars == << cron, brave >>

\* the variables of the research run
runVars == << defaultProviders, ticks, project, searchResults, deliveryLogs, emails,
             calls, pc, run, result, obs >>

db == << project, history, searchResults, deliveryLogs >>

\* no URL string
NoUrl == << >>

\* no scheduling utility was called
NoSched ==
  [ fn |-> None, frequency |-> None, deliveryTime |-> [hours |-> 0, minutes |-> 0],
    timezone |-> 0, lastRunAt |-> 0, at |-> 0, valid |-> FALSE, nextRunAt |-> 0 ]

\* no retry wrapper was called
NoRetry ==
  [ fn |-> None, maxRetries |-> 0, attempt |-> 0, invocations |-> 0,
    delays |-> << >>, failures |-> << >>, lastError |-> None, outcome |-> None,
    message |-> [text |-> None, attempts |-> 0, cause |-> None] ]

\* updateSearchHistory was not called
NoUpd ==
  [ calls |-> 0, before |-> NoDoc, newUrls |-> << >>, queryPerformance |-> << >> ]

\* the scheduler process does not run
NoCron ==
  [ projects |-> << >>, jobs |-> {}, notifications |-> {}, ticks |-> 0 ]

\* searchWeb was never called
NoBrave ==
  [ lastRequestTime |-> 0, waiting |-> {}, requests |-> << >>, calls |-> 0, ticks |-> 0 ]

NoRun ==
  [ caller |-> None, options |-> NoOptions, startedAt |-> 0, maxIterations |-> 0,
    minResults |-> 0, maxResults |-> 0, relevancyThreshold |-> 0,
    userEmail |-> FALSE,
    processedUrlsSet |-> {}, allRelevantResults |-> << >>,
    totalUrlsFetched |-> 0, totalUrlsSuccessful |-> 0,
    allQueriesGenerated |-> << >>, allQueriesExecuted |-> << >>,
    queryPerformanceMap |-> << >>, iteration |-> 0,
    generatorIteration |-> 0, iterationGuidance |-> None,
    queries |-> << >>, searchResponses |-> << >>, limitedResults |-> << >>,
    resultsToFetch |-> << >>, filteredContents |-> << >>,
    sortedResults |-> << >>, report |-> NoReport, deliveryLogId |-> NoLogId,
    error |-> None ]

NoObs ==
  [ dbAtStart |-> << >>,       \* the database when the call was made
    defaultsSet |-> FALSE,     \* the default providers were set when the call was made
    historyAtStart |-> {},     \* normalizedUrls of the persisted history at the call
    dbReads |-> 0, dbWrites |-> 0,   \* database operations of the call
    extracted |-> {},          \* URLs sent to extractMultipleContents
    extractedTwice |-> {},     \* URLs sent to it in more than one iteration
    scoredFalse |-> {},        \* URLs answered with isRelevant = false
    accumulated |-> << >>,     \* the accepted results in the order of acceptance
    generateCalls |-> 0, searchCalls |-> 0, extractCalls |-> 0, analyzeCalls |-> 0,
    minReachedAt |-> 0,        \* iteration at whose end minResults were accumulated
    exhaustedAt |-> 0,         \* iteration whose deduplicated candidate set was empty
    exhaustedCalls |-> <<0, 0>>,  \* extractCalls and analyzeCalls at that time
    guardRejected |-> FALSE,   \* the frequency guard rejected the call
    compileCalls |-> 0,        \* calls of llmProvider.compileReport
    emailOutcome |-> "none",   \* what sendReportEmail did: "sent" or "failed"
    filterThrew |-> FALSE,     \* filterSearchResults rejected, extraction is next
    failedQueries |-> {},      \* queries whose search failed, while their siblings'
                               \* results are on the way to analysis
    processed |-> {} ]         \* URLs marked processed in processedUrlsSet by this run

(***************************************************************************)
(* Environment                                                             *)
(***************************************************************************)
\* setDefaultProviders(llmProvider, searchProvider) at process start
setDefaultProviders ==
  /\ pc = "idle"
  /\ ~defaultProviders
  /\ defaultProviders' = TRUE
  /\ UNCHANGED << now, ticks, project, history, searchResults, deliveryLogs,
                  emails, calls, pc, run, result, obs >>
  /\ UNCHANGED fnVars

\* time passes between calls
Tick ==
  /\ pc = "idle"
  /\ ticks < MaxTicks
  /\ now' = now + TickMs
  /\ ticks' = ticks + 1
  /\ UNCHANGED << defaultProviders, project, history, searchResults, deliveryLogs,
                  emails, calls, pc, run, result, obs >>
  /\ UNCHANGED fnVars

(***************************************************************************)
(* executeResearchForProject                                               *)
(***************************************************************************)
\* the ResearchResult of the catch block
FailedResult(message) ==
  [ kind |-> "returned", success |-> FALSE, relevantResults |-> << >>,
    totalResultsAnalyzed |-> 0, iterationsUsed |-> 0, urlsFetched |-> 0,
    urlsSuccessful |-> 0, urlsRelevant |-> 0, report |-> NoReport,
    deliveryLogId |-> NoLogId, error |-> message ]

\* what is kept of the observations of a run once it has failed: those of its
\* loop are of no use then
AfterFailure(o) ==
  [NoObs EXCEPT !.dbAtStart = o.dbAtStart, !.defaultsSet = o.defaultsSet,
                !.historyAtStart = o.historyAtStart, !.dbReads = o.dbReads,
                !.dbWrites = o.dbWrites, !.guardRejected = o.guardRejected,
                !.emailOutcome = o.emailOutcome]

\* an exception leaves the try block: control goes to the catch block, which
\* reads only startedAt and the error among the locals
Throw(message) ==
  /\ run' = [NoRun EXCEPT !.caller = run.caller, !.startedAt = run.startedAt,
                          !.error = message]
  /\ pc' = "catch"

\* getDefaultProviders() without its check of the two defaults
getDefaultProvidersThrows_Never(providersSet) == FALSE

\* getDefaultProviders(): throws when the default providers are not both set
getDefaultProvidersThrows(providersSet) == ~providersSet

\* lines 99-105: entry of executeResearchForProject(userId, projectId, options);
\* dbBefore is the database at the time of the call
Enter(caller, options, dbBefore, providersSet) ==
  /\ calls' = calls + 1
  /\ obs' = [NoObs EXCEPT !.dbAtStart = dbBefore,
                          !.defaultsSet = providersSet,
                          !.historyAtStart =
                             IF ~history.exists THEN {}
                             ELSE { history.processedUrls[i].normalizedUrl :
                                      i \in 1..Len(history.processedUrls) }]
  /\ IF getDefaultProvidersThrows(providersSet)
     THEN /\ pc' = "done"
          /\ run' = [NoRun EXCEPT !.caller = caller, !.options = options,
                                  !.startedAt = now]
          /\ result' = [ kind |-> "threw",
                         error |-> "Default providers not set" ]
     ELSE /\ pc' = "loadProject"
          /\ run' = [NoRun EXCEPT !.caller = caller, !.options = options,
                                  !.startedAt = now,
                                  !.maxIterations =
                                     OrElse(options.maxIterations, DefaultMaxIterations),
                                  !.iteration = 1]
          /\ result' = NoResult

\* a script or test calls executeResearchForProject(userId, projectId, options)
Call ==
  /\ pc = "idle"
  /\ calls < MaxCalls
  /\ \E options \in OptionsMenu : Enter("script", options, db, defaultProviders)
  /\ UNCHANGED << defaultProviders, now, ticks, project, history, searchResults,
                  deliveryLogs, emails >>
  /\ UNCHANGED fnVars

\* scheduler, executeProjectResearch lines 83-123: initialize the providers, set
\* the project to running, call executeResearchForProject(userId, project.id)
\* (the case of a rejected status update, in which no research starts, is left out)
executeProjectResearchStart ==
  /\ pc = "idle"
  /\ calls < MaxCalls
  /\ project.exists
  /\ defaultProviders' = TRUE
  /\ project' = [project EXCEPT !.status = "running"]
  /\ Enter("scheduler", NoOptions,
           << project', history, searchResults, deliveryLogs >>, TRUE)
  /\ UNCHANGED << now, ticks, history, searchResults, deliveryLogs, emails >>
  /\ UNCHANGED fnVars

\* lines 108-144: load the project and the user, check the frequency, read the settings
\* (options is not read after line 144)
LoadProject ==
  /\ pc = "loadProject"
  /\ \/ \* projectRef.get() or userRef.get() rejects
        /\ Throw("firestore unavailable")
        /\ obs' = obs
     \/ /\ ~project.exists
        /\ Throw("Project not found")
        /\ obs' = [obs EXCEPT !.dbReads = @ + 1]
     \/ /\ project.exists
        /\ ~run.options.ignoreFrequencyCheck
        /\ ~validateFrequency(project.frequency, project.lastRunAt, now)
        /\ Throw("Project cannot be run more than once per day")
        /\ obs' = [obs EXCEPT !.dbReads = @ + 2, !.guardRejected = TRUE]
     \/ /\ project.exists
        /\ \/ run.options.ignoreFrequencyCheck
           \/ validateFrequency(project.frequency, project.lastRunAt, now)
        /\ run' = [run EXCEPT
               !.options = NoOptions,
               !.userEmail = UserHasEmail,
               !.minResults = OrElse(run.options.minResults, project.settings.minResults),
               !.maxResults = OrElse(run.options.maxResults, project.settings.maxResults),
               !.relevancyThreshold = OrElse(run.options.relevancyThreshold,
                                             project.settings.relevancyThreshold)]
        /\ pc' = "loadHistory"
        /\ obs' = [obs EXCEPT !.dbReads = @ + 2]
  /\ UNCHANGED << defaultProviders, now, ticks, project, history, searchResults,
                  deliveryLogs, emails, calls, result >>
  /\ UNCHANGED fnVars

\* lines 146-150: getSearchHistory creates the document on first access
LoadHistory ==
  /\ pc = "loadHistory"
  /\ \/ /\ Throw("firestore unavailable")
        /\ obs' = AfterFailure(obs)
        /\ UNCHANGED history
     \/ /\ history' = getSearchHistory(history)
        /\ run' = [run EXCEPT !.processedUrlsSet =
                     { history'.processedUrls[i].normalizedUrl :
                         i \in 1..Len(history'.processedUrls) }]
        /\ obs' = [obs EXCEPT !.dbReads = @ + 1,
                              !.dbWrites = @ + (IF ~history.exists THEN 1 ELSE 0)]
        /\ pc' = "generateQueries"
  /\ UNCHANGED << defaultProviders, now, ticks, project, searchResults,
                  deliveryLogs, emails, calls, result >>
  /\ UNCHANGED fnVars

\* projectRef.update(fields) succeeds only on an existing document
CanUpdateProject == project.exists

CatchUpdateRejected_Propagates(message) ==
  [ kind |-> "threw", error |-> "firestore unavailable" ]

\* lines 650-664: when the project update of the catch block rejects, the inner
\* catch only logs and the failed result is returned all the same
CatchUpdateRejected(message) == FailedResult(message)

\* lines 646-682: the catch block
Catch ==
  /\ pc = "catch"
  /\ \/ \* projectRef.update succeeds
        /\ CanUpdateProject
        /\ project' = [project EXCEPT !.lastRunAt = run.startedAt,
                                      !.status = "error",
                                      !.lastError = run.error]
        /\ obs' = [obs EXCEPT !.dbWrites = @ + 1]
        /\ result' = FailedResult(run.error)
     \/ \* projectRef.update rejects
        /\ UNCHANGED << project, obs >>
        /\ result' = CatchUpdateRejected(run.error)
  /\ pc' = "done"
  /\ UNCHANGED << defaultProviders, now, ticks, history, searchResults,
                  deliveryLogs, emails, calls, run >>
  /\ UNCHANGED fnVars

(***************************************************************************)
(* The iteration loop: pure steps                                          *)
(***************************************************************************)
\* a deduplication within the iteration only, blind to processedUrlsSet
RECURSIVE DedupLoop_WithinIteration(_, _, _)
DedupLoop_WithinIteration(items, processedUrlsSet, map) ==
  IF items = << >> THEN map
  ELSE LET item == Head(items)
           normalizedUrl == OrchKey(item)
       IN IF \A i \in 1..Len(map) : map[i].key # normalizedUrl
          THEN DedupLoop_WithinIteration(Tail(items), processedUrlsSet,
                                         Append(map, [key |-> normalizedUrl, item |-> item]))
          ELSE DedupLoop_WithinIteration(Tail(items), processedUrlsSet, map)

\* lines 236-246: the loop filling uniqueUrlsMap; map is the sequence of
\* [key, item] entries in insertion order
RECURSIVE DedupLoop(_, _, _)
DedupLoop(items, processedUrlsSet, map) ==
  IF items = << >> THEN map
  ELSE LET item == Head(items)
           normalizedUrl == OrchKey(item)
       IN IF /\ normalizedUrl \notin processedUrlsSet
             /\ \A i \in 1..Len(map) : map[i].key # normalizedUrl
          THEN DedupLoop(Tail(items), processedUrlsSet,
                         Append(map, [key |-> normalizedUrl, item |-> item]))
          ELSE DedupLoop(Tail(items), processedUrlsSet, map)

\* uniqueResults = Array.from(uniqueUrlsMap.values())
UniqueResults(searchResponses, processedUrlsSet) ==
  LET allUrlsWithMeta ==
        Flatten([i \in 1..Len(searchResponses) |-> searchResponses[i].results])
      uniqueUrlsMap == DedupLoop(allUrlsWithMeta, processedUrlsSet, << >>)
  IN [i \in 1..Len(uniqueUrlsMap) |-> uniqueUrlsMap[i].item]

\* lines 250-267: excluded-keyword pre-filter on title and description, then the cap
LimitedResults(uniqueResults, excludedKeywords) ==
  LET preFilteredResults ==
        IF Len(excludedKeywords) > 0
        THEN SelectSeq(uniqueResults, LAMBDA u : ~TitleHasExcludedKeyword(u))
        ELSE uniqueResults
  IN Slice0(preFilteredResults, ExtractionCap)

\* normalizedUrl of an extracted content (content-extractor)
ExtractedNormalizedUrl(url) == normalizeUrl(url)

\* allRelevantResults.sort((a, b) => b.relevancyScore - a.relevancyScore):
\* a stable sort, by insertion
RECURSIVE InsertDesc(_, _)
InsertDesc(sorted, x) ==
  IF sorted = << >> THEN << x >>
  ELSE IF Head(sorted).relevancyScore >= x.relevancyScore
       THEN << Head(sorted) >> \o InsertDesc(Tail(sorted), x)
       ELSE << x >> \o sorted

\* the accumulated results left in the order of their arrival
SortDesc_Unsorted(s) == s

RECURSIVE SortDesc(_)
SortDesc(s) ==
  IF s = << >> THEN << >>
  ELSE InsertDesc(SortDesc(SubSeq(s, 1, Len(s) - 1)), s[Len(s)])

\* lines 420-428: the first query whose results hold the URL, "unknown" when none
RECURSIVE SourceQuery(_, _, _)
SourceQuery(searchResponses, url, i) ==
  IF i > Len(searchResponses) THEN "unknown"
  ELSE IF url \in Range(searchResponses[i].results) THEN searchResponses[i].query
  ELSE SourceQuery(searchResponses, url, i + 1)

\* lines 413-460: one SearchResult per relevant answer whose URL is an extracted content
RECURSIVE NewSearchResults(_, _, _)
NewSearchResults(relevantResults, filteredContents, searchResponses) ==
  IF relevantResults = << >> THEN << >>
  ELSE LET r == Head(relevantResults)
           rest == NewSearchResults(Tail(relevantResults), filteredContents,
                                    searchResponses)
       IN IF r.url \notin Range(filteredContents) THEN rest
          ELSE << [ url |-> r.url,
                    normalizedUrl |-> ExtractedNormalizedUrl(r.url),
                    sourceQuery |-> SourceQuery(searchResponses, r.url, 1),
                    relevancyScore |-> r.score ] >> \o rest

\* Map.prototype.set on the map kept as a sequence of [query, relevant, total]
MapSet(map, entry) ==
  IF \E i \in 1..Len(map) : map[i].query = entry.query
  THEN [i \in 1..Len(map) |-> IF map[i].query = entry.query THEN entry ELSE map[i]]
  ELSE Append(map, entry)

\* lines 463-472: query performance of this iteration
RECURSIVE TrackQueryPerformance(_, _, _)
TrackQueryPerformance(map, searchResponses, relevantResults) ==
  IF searchResponses = << >> THEN map
  ELSE LET response == Head(searchResponses)
           relevantCount ==
             Len(SelectSeq(relevantResults,
                           LAMBDA r : r.url \in Range(response.results)))
       IN TrackQueryPerformance(
            MapSet(map, [query |-> response.query, relevant |-> relevantCount,
                         total |-> Len(response.results)]),
            Tail(searchResponses), relevantResults)

\* lines 488-491: after the loop, sort (in place) and limit; the locals of the
\* loop body are gone
AfterLoop(r) ==
  LET sorted == SortDesc(r.allRelevantResults)
  IN [r EXCEPT !.allRelevantResults = sorted,
               !.sortedResults = Slice0(sorted, r.maxResults),
               !.queries = << >>, !.searchResponses = << >>,
               !.limitedResults = << >>, !.resultsToFetch = << >>,
               !.filteredContents = << >>, !.processedUrlsSet = {}]

\* the results saved without a report compiled over them
AfterLoopPc_NoReport(r) ==
  IF Len(AfterLoop(r).sortedResults) > 0 THEN "saveSearchResults" ELSE "updateHistory"

\* where control goes after the loop (line 500): the report is compiled and the
\* results and the delivery log are saved only when results remain
AfterLoopPc(r) ==
  IF Len(AfterLoop(r).sortedResults) > 0 THEN "compileReport" ELSE "updateHistory"

\* iteration++ followed by the loop test
NextIteration(r) ==
  LET r2 == [r EXCEPT !.iteration = @ + 1]
  IN IF r2.iteration <= r2.maxIterations
     THEN [run |-> r2, pc |-> "generateQueries"]
     ELSE [run |-> AfterLoop(r2), pc |-> AfterLoopPc(r2)]

\* break
Break(r) == [run |-> AfterLoop(r), pc |-> AfterLoopPc(r)]

OnNoCandidates_Continue(r) == NextIteration(r)

\* lines 273-276: no candidate is left after deduplication, pre-filter and cap
OnNoCandidates(r) == Break(r)

RelevantAnswers_Unfiltered(relevancyResults) == relevancyResults

\* line 407: relevancyResults.filter((r) => r.isRelevant)
RelevantAnswers(relevancyResults) ==
  SelectSeq(relevancyResults, LAMBDA r : r.isRelevant)

EnoughResults_Strict(count, minResults) == count > minResults

\* line 475: allRelevantResults.length >= minResults
EnoughResults(count, minResults) == count >= minResults

(***************************************************************************)
(* The iteration loop: steps between awaits                                *)
(***************************************************************************)
\* lines 184-211: llmProvider.generateSearchQueries
\* the iteration argument that reaches generateSearchQueries of query-generation.ts
\* when the loop is in iteration `iteration`: llmProvider.generateSearchQueries
\* takes no iteration, and OpenAIProvider passes the literal 1
IterationPassed(iteration) == 1

\* iterationGuidance of generateSearchQueries(..., iteration)
IterationGuidance(iteration) ==
  CASE iteration = 2 -> "broader queries with less restrictive terms"
    [] iteration = 3 -> "very broad queries with alternative phrasings"
    [] OTHER -> None

GenerateQueries ==
  /\ pc = "generateQueries"
  /\ \/ /\ Throw("Failed to generate queries after 3 attempts")
        /\ obs' = AfterFailure(obs)
     \/ /\ run' = [run EXCEPT !.queries = GeneratedQueries,
                              !.allQueriesGenerated = @ \o GeneratedQueries,
                              !.generatorIteration = IterationPassed(run.iteration),
                              !.iterationGuidance =
                                 IterationGuidance(IterationPassed(run.iteration))]
        /\ pc' = "search"
        /\ obs' = [obs EXCEPT !.generateCalls = @ + 1]
  /\ UNCHANGED << defaultProviders, now, ticks, project, history, searchResults,
                  deliveryLogs, emails, calls, result >>
  /\ UNCHANGED fnVars

\* a failed query keeps an entry, without results
RECURSIVE searchMultipleQueries_EmptyOnFailure(_, _)
searchMultipleQueries_EmptyOnFailure(queries, outcome) ==
  IF queries = << >> THEN << >>
  ELSE MapSet(searchMultipleQueries_EmptyOnFailure(SubSeq(queries, 1, Len(queries) - 1),
                                                   outcome),
              [query |-> queries[Len(queries)],
               results |-> outcome[queries[Len(queries)]].results])

\* brave-search.ts searchMultipleQueries(queries, filters): the Map of query ->
\* response in insertion order; a query whose searchWithRetry throws is logged
\* and gets no entry
RECURSIVE searchMultipleQueries(_, _)
searchMultipleQueries(queries, outcome) ==
  IF queries = << >> THEN << >>
  ELSE LET results == searchMultipleQueries(SubSeq(queries, 1, Len(queries) - 1), outcome)
           query == queries[Len(queries)]
       IN IF outcome[query].ok
          THEN MapSet(results, [query |-> query, results |-> outcome[query].results])
          ELSE results

\* lines 213-282: searchProvider.searchMultiple, deduplication, pre-filter, cap,
\* break when nothing is left, else mark the candidates processed
Search ==
  /\ pc = "search"
  /\ \E outcome \in SearchMenu :
          LET searchResponses == searchMultipleQueries(run.queries, outcome)
              failed == { q \in Range(run.queries) : ~outcome[q].ok }
              uniqueResults == UniqueResults(searchResponses, run.processedUrlsSet)
              limitedResults == LimitedResults(uniqueResults, project.excludedKeywords)
              r1 == [run EXCEPT
                       !.searchResponses = searchResponses,
                       !.allQueriesExecuted =
                          @ \o [i \in 1..Len(searchResponses) |-> searchResponses[i].query],
                       !.limitedResults = limitedResults,
                       !.resultsToFetch = << >>,
                       !.filteredContents = << >>]
              exhausted == Len(uniqueResults) = 0
          IN IF Len(limitedResults) = 0
             THEN /\ run' = OnNoCandidates(r1).run
                  /\ pc' = OnNoCandidates(r1).pc
                  /\ obs' = [obs EXCEPT
                       !.searchCalls = @ + 1,
                       !.failedQueries = {},
                       !.exhaustedAt = IF exhausted THEN run.iteration ELSE @,
                       !.exhaustedCalls = IF exhausted
                                          THEN << obs.extractCalls, obs.analyzeCalls >>
                                          ELSE @]
             ELSE /\ run' = [r1 EXCEPT !.processedUrlsSet =
                               @ \cup { OrchKey(limitedResults[i]) :
                                          i \in 1..Len(limitedResults) }]
                  /\ pc' = "filterSearchResults"
                  /\ obs' = [obs EXCEPT !.searchCalls = @ + 1,
                                          !.failedQueries = failed,
                                          !.processed = @ \cup Range(limitedResults)]
  /\ UNCHANGED << defaultProviders, now, ticks, project, history, searchResults,
                  deliveryLogs, emails, calls, result >>
  /\ UNCHANGED fnVars

\* a failed filter leaves nothing to fetch
OnFilterError_DropAll(limitedResults) == << >>

\* lines 286, 308-310: when filterSearchResults rejects, resultsToFetch keeps its
\* initial value, limitedResults
OnFilterError(limitedResults) == limitedResults

\* lines 284-311: the optional LLM pre-fetch filter; a failure keeps all candidates
FilterSearchResults ==
  /\ pc = "filterSearchResults"
  /\ \E f \in FilterMenu :
       /\ run' = [run EXCEPT !.resultsToFetch =
                    CASE f \in {"absent", "keepAll"} -> run.limitedResults
                      [] f = "throws" -> OnFilterError(run.limitedResults)
                      [] f = "dropFirst" -> Tail(run.limitedResults)]
       /\ obs' = [obs EXCEPT !.filterThrew = (f = "throws")]
  /\ pc' = "extract"
  /\ UNCHANGED << defaultProviders, now, ticks, project, history, searchResults,
                  deliveryLogs, emails, calls, result >>
  /\ UNCHANGED fnVars

\* the content of u passes the keyword filter of lines 341-375
PassesKeywordFilter(status, excludedKeywords, requiredKeywords) ==
  /\ ~(Len(excludedKeywords) > 0 /\ status = "spam")
  /\ ~(Len(requiredKeywords) > 0 /\ status = "offtopic")

\* lines 313-383: extractMultipleContents, then the keyword filter
Extract ==
  /\ pc = "extract"
  /\ \E e \in ExtractionMenu :
          LET successfulContents ==
                SelectSeq(run.resultsToFetch, LAMBDA u : e[u] # "failed")
              filteredContents ==
                SelectSeq(successfulContents,
                          LAMBDA u : PassesKeywordFilter(e[u], project.excludedKeywords,
                                                         project.requiredKeywords))
              r1 == [run EXCEPT
                       !.totalUrlsFetched = @ + Len(run.resultsToFetch),
                       !.totalUrlsSuccessful = @ + Len(successfulContents),
                       !.filteredContents = filteredContents]
          IN /\ IF Len(successfulContents) = 0 \/ Len(filteredContents) = 0
                THEN /\ run' = NextIteration(r1).run
                     /\ pc' = NextIteration(r1).pc
                ELSE /\ run' = r1
                     /\ pc' = "analyzeRelevancy"
             /\ obs' = [obs EXCEPT
                  !.filterThrew = FALSE,
                  !.failedQueries =
                     IF Len(successfulContents) = 0 \/ Len(filteredContents) = 0
                     THEN {} ELSE @,
                  !.extractCalls = @ + 1,
                  !.extracted = @ \cup Range(run.resultsToFetch),
                  !.extractedTwice = @ \cup (obs.extracted \cap Range(run.resultsToFetch)),
                  !.minReachedAt =
                     IF /\ Len(successfulContents) = 0 \/ Len(filteredContents) = 0
                        /\ Len(obs.accumulated) >= run.minResults
                     THEN run.iteration ELSE @]
  /\ UNCHANGED << defaultProviders, now, ticks, project, history, searchResults,
                  deliveryLogs, emails, calls, result >>
  /\ UNCHANGED fnVars

\* lines 385-486: llmProvider.analyzeRelevancy, accept the relevant answers,
\* track query performance, stop when enough results were found
AnalyzeRelevancy ==
  /\ pc = "analyzeRelevancy"
  /\ \/ /\ Throw("Failed to analyze relevancy after 3 attempts")
        /\ obs' = AfterFailure(obs)
     \/ \E v \in VerdictMenu :
          LET answers == [i \in 1..Len(run.filteredContents) |->
                            [ url |-> run.filteredContents[i],
                              score |-> v.of[run.filteredContents[i]][1],
                              isRelevant |-> v.of[run.filteredContents[i]][2] ]]
              relevancyResults ==
                IF v.repeatFirst THEN Append(answers, answers[1]) ELSE answers
              relevantResults == RelevantAnswers(relevancyResults)
              accepted == NewSearchResults(relevantResults, run.filteredContents,
                                           run.searchResponses)
              r1 == [run EXCEPT
                       !.allRelevantResults = @ \o accepted,
                       !.queryPerformanceMap =
                          TrackQueryPerformance(@, run.searchResponses, relevantResults)]
              enough == EnoughResults(Len(r1.allRelevantResults), run.minResults)
              next == IF enough THEN Break(r1) ELSE NextIteration(r1)
          IN /\ run' = next.run
             /\ pc' = next.pc
             /\ obs' = [obs EXCEPT
                  !.analyzeCalls = @ + 1,
                  !.failedQueries = {},
                  !.scoredFalse = @ \cup { relevancyResults[i].url :
                       i \in { j \in 1..Len(relevancyResults) :
                                 ~relevancyResults[j].isRelevant } },
                  !.accumulated = @ \o accepted,
                  !.minReachedAt = IF Len(obs.accumulated \o accepted) >= run.minResults
                                   THEN run.iteration ELSE @]
  /\ UNCHANGED << defaultProviders, now, ticks, project, history, searchResults,
                  deliveryLogs, emails, calls, result >>
  /\ UNCHANGED fnVars

(***************************************************************************)
(* After the loop                                                          *)
(***************************************************************************)
\* lines 497-530: llmProvider.compileReport over the sorted results
CompileReport ==
  /\ pc = "compileReport"
  /\ \/ /\ Throw("Failed to compile report after 3 attempts")
        /\ obs' = AfterFailure(obs)
     \/ /\ run' = [run EXCEPT !.report = [exists |-> TRUE, resultCount |-> Len(run.sortedResults)]]
        /\ pc' = "saveSearchResults"
        /\ obs' = [obs EXCEPT !.compileCalls = @ + 1]
  /\ UNCHANGED << defaultProviders, now, ticks, project, history, searchResults,
                  deliveryLogs, emails, calls, result >>
  /\ UNCHANGED fnVars

\* lines 532-541: saveSearchResults
SaveSearchResults ==
  /\ pc = "saveSearchResults"
  /\ \/ /\ Throw("firestore unavailable")
        /\ obs' = AfterFailure(obs)
        /\ UNCHANGED searchResults
     \/ /\ searchResults' = searchResults \cup
             { <<calls, run.sortedResults[i].url>> : i \in 1..Len(run.sortedResults) }
        /\ obs' = [obs EXCEPT !.dbWrites = @ + 1]
        /\ pc' = IF run.report.exists /\ Len(run.sortedResults) > 0
                 THEN "saveDeliveryLog" ELSE "updateHistory"
        /\ run' = run
  /\ UNCHANGED << defaultProviders, now, ticks, project, history,
                  deliveryLogs, emails, calls, result >>
  /\ UNCHANGED fnVars

\* the email is sent when the destination is email and an address is known
EmailConfigured ==
  project.resultsDestination = "email" /\ (project.deliveryEmail \/ run.userEmail)

\* lines 543-566: saveDeliveryLog
SaveDeliveryLog ==
  /\ pc = "saveDeliveryLog"
  /\ \/ /\ Throw("firestore unavailable")
        /\ obs' = AfterFailure(obs)
        /\ UNCHANGED deliveryLogs
     \/ /\ deliveryLogs' = deliveryLogs \cup
             { [ call |-> calls, status |-> "success",
                 iterationsRequired |-> run.iteration,
                 totalResults |-> Len(run.allRelevantResults),
                 includedResults |-> Len(run.sortedResults) ] }
        /\ obs' = [obs EXCEPT !.dbWrites = @ + 1]
        /\ run' = [run EXCEPT !.deliveryLogId = calls]
        /\ pc' = IF EmailConfigured THEN "sendReportEmail" ELSE "updateHistory"
  /\ UNCHANGED << defaultProviders, now, ticks, project, history,
                  searchResults, emails, calls, result >>
  /\ UNCHANGED fnVars

\* the failure of the send ends the run
EmailFailed_Propagates(message) == Throw(message)

\* lines 585-590: a send that answers success = false, or throws, is only logged
EmailFailed(message) == pc' = "updateHistory" /\ run' = run

\* lines 568-591: sendReportEmail (email/index.ts answers success = false for every
\* failure it catches; the orchestrator also catches a throwing send)
SendReportEmail ==
  /\ pc = "sendReportEmail"
  /\ \/ /\ emails' = emails \cup {calls}
        /\ pc' = "updateHistory"
        /\ run' = run
        /\ obs' = [obs EXCEPT !.emailOutcome = "sent"]
     \/ \* the send answers success = false, or throws
        /\ emails' = emails
        /\ EmailFailed("Failed to send email")
        /\ obs' = [obs EXCEPT !.emailOutcome = "failed"]
  /\ UNCHANGED << defaultProviders, now, ticks, project, history, searchResults,
                  deliveryLogs, calls, result >>
  /\ UNCHANGED fnVars

\* lines 595-602: the ProcessedUrl entries built from sortedResults
NewProcessedUrls(sortedResults) ==
  [i \in 1..Len(sortedResults) |->
     [ url |-> sortedResults[i].url,
       normalizedUrl |-> sortedResults[i].normalizedUrl,
       timesFound |-> 1,
       lastRelevancyScore |-> sortedResults[i].relevancyScore,
       wasIncluded |-> TRUE ]]

\* lines 594-609: updateSearchHistory
UpdateHistory ==
  /\ pc = "updateHistory"
  /\ \/ /\ Throw("firestore unavailable")
        /\ obs' = AfterFailure(obs)
        /\ UNCHANGED history
     \/ /\ history' = updateSearchHistory(
                         getSearchHistory(history),
                         NewProcessedUrls(run.sortedResults),
                         run.queryPerformanceMap)
        /\ obs' = [obs EXCEPT !.dbReads = @ + 1, !.dbWrites = @ + 1]
        /\ pc' = "updateProject"
        /\ run' = run
  /\ UNCHANGED << defaultProviders, now, ticks, project, searchResults,
                  deliveryLogs, emails, calls, result >>
  /\ UNCHANGED fnVars

\* the ResearchResult of lines 629-645
SuccessResult(r) ==
  [ kind |-> "returned", success |-> TRUE, relevantResults |-> r.sortedResults,
    totalResultsAnalyzed |-> Len(r.allRelevantResults),
    iterationsUsed |-> r.iteration,
    urlsFetched |-> r.totalUrlsFetched, urlsSuccessful |-> r.totalUrlsSuccessful,
    urlsRelevant |-> Len(r.allRelevantResults), report |-> r.report,
    deliveryLogId |-> r.deliveryLogId, error |-> None ]

\* lines 611-645: next run time, project update, successful return
UpdateProject ==
  /\ pc = "updateProject"
  /\ \/ /\ Throw("firestore unavailable")
        /\ obs' = AfterFailure(obs)
        /\ UNCHANGED << project, result >>
     \/ /\ CanUpdateProject
        /\ project' = [project EXCEPT
             !.lastRunAt = run.startedAt,
             !.nextRunAt = calculateNextRunAt(project.frequency, project.deliveryTime,
                                              project.timezone, run.startedAt, now)
                             * minuteMs,
             !.status = "active"]
        /\ obs' = [obs EXCEPT !.dbWrites = @ + 1]
        /\ result' = SuccessResult(run)
        /\ pc' = "done"
        /\ run' = run
  /\ UNCHANGED << defaultProviders, now, ticks, history, searchResults,
                  deliveryLogs, emails, calls >>
  /\ UNCHANGED fnVars

\* the caller receives the outcome; the locals of the call are gone
Return ==
  /\ pc = "done"
  /\ run.caller = "script"
  /\ pc' = "idle"
  /\ run' = NoRun
  /\ obs' = NoObs
  /\ result' = NoResult
  /\ UNCHANGED << defaultProviders, now, ticks, project, history, searchResults,
                  deliveryLogs, emails, calls >>
  /\ UNCHANGED fnVars

\* scheduler, executeProjectResearch lines 125-192: a successful result with a
\* delivery log has the log set to pending; when that update rejects, the catch
\* block marks the project as failed
executeProjectResearchFinish ==
  /\ pc = "done"
  /\ run.caller = "scheduler"
  /\ IF result.success /\ result.deliveryLogId # NoLogId
     THEN \/ /\ deliveryLogs' =
                  { IF l.call = result.deliveryLogId
                    THEN [l EXCEPT !.status = "pending"] ELSE l : l \in deliveryLogs }
             /\ project' = project
          \/ /\ deliveryLogs' = deliveryLogs
             /\ \/ project' = [project EXCEPT !.status = "error",
                                              !.lastError = "firestore unavailable"]
                \/ project' = project
     ELSE UNCHANGED << project, deliveryLogs >>
  /\ pc' = "idle"
  /\ run' = NoRun
  /\ obs' = NoObs
  /\ result' = NoResult
  /\ UNCHANGED << defaultProviders, now, ticks, history, searchResults, emails, calls >>
  /\ UNCHANGED fnVars

(***************************************************************************)
(* Initial states                                                          *)
(***************************************************************************)
\* An earlier run of the project, half a day before the process started: its
\* searches returned PriorResponses, every page was extracted and every answer
\* of analyzeRelevancy was relevant, U3 with a higher score than U1
PriorRunAt == StartClock - (TickMs \div 2)

PriorResponses ==
  << [query |-> "q1", results |-> <<U1, U2>>], [query |-> "q2", results |-> <<U3>>] >>

PriorContents ==
  LimitedResults(UniqueResults(PriorResponses, {}), NewProject.excludedKeywords)

PriorRelevant ==
  RelevantAnswers([i \in 1..Len(PriorContents) |->
                     [ url |-> PriorContents[i],
                       score |-> IF PriorContents[i] = U1 THEN 70 ELSE 90,
                       isRelevant |-> TRUE ]])

PriorSortedResults ==
  Slice0(SortDesc(NewSearchResults(PriorRelevant, PriorContents, PriorResponses)),
         NewProject.settings.maxResults)

\* the documents that run left (its results and delivery log under call 0)
PriorProject ==
  [NewProject EXCEPT !.lastRunAt = PriorRunAt,
                     !.nextRunAt = calculateNextRunAt(NewProject.frequency,
                                                      NewProject.deliveryTime,
                                                      NewProject.timezone,
                                                      PriorRunAt, PriorRunAt) * minuteMs,
                     !.status = "active"]

PriorHistory ==
  updateSearchHistory(newHistory, NewProcessedUrls(PriorSortedResults),
                      TrackQueryPerformance(<< >>, PriorResponses, PriorRelevant))

PriorSearchResults ==
  { << 0, PriorSortedResults[i].url >> : i \in 1..Len(PriorSortedResults) }

PriorDeliveryLogs ==
  { [ call |-> 0, status |-> "success", iterationsRequired |-> 1,
      totalResults |-> Len(PriorSortedResults),
      includedResults |-> Len(PriorSortedResults) ] }

\* the process starts with no default providers, on a database that holds no
\* project, a project that never ran, or a project that ran before
Init ==
  /\ defaultProviders = FALSE
  /\ now = StartClock
  /\ ticks = 0
  /\ \/ /\ project \in {NoDoc, NewProject}
        /\ history = NoDoc
        /\ searchResults = {}
        /\ deliveryLogs = {}
        /\ emails = {}
     \/ /\ project = PriorProject
        /\ history = PriorHistory
        /\ searchResults = PriorSearchResults
        /\ deliveryLogs = PriorDeliveryLogs
        /\ emails = {0}
  /\ calls = 0
  /\ pc = "idle"
  /\ run = NoRun
  /\ result = NoResult
  /\ obs = NoObs
  /\ urlIn = NoUrl
  /\ sched = NoSched
  /\ retry = NoRetry
  /\ upd = NoUpd
  /\ cron = NoCron
  /\ brave = NoBrave

Next ==
  \/ setDefaultProviders
  \/ Tick
  \/ Call
  \/ executeProjectResearchStart
  \/ executeProjectResearchFinish
  \/ LoadProject
  \/ LoadHistory
  \/ GenerateQueries
  \/ Search
  \/ FilterSearchResults
  \/ Extract
  \/ AnalyzeRelevancy
  \/ CompileReport
  \/ SaveSearchResults
  \/ SaveDeliveryLog
  \/ SendReportEmail
  \/ UpdateHistory
  \/ UpdateProject
  \/ Catch
  \/ Return

Spec == Init /\ [][Next]_vars

TypeOK ==
  /\ pc \in { "idle", "loadProject", "loadHistory", "generateQueries", "search",
              "filterSearchResults", "extract", "analyzeRelevancy", "compileReport",
              "saveSearchResults", "saveDeliveryLog", "sendReportEmail",
              "updateHistory", "updateProject", "catch", "done" }
  /\ calls \in 0..MaxCalls

\* no research run is in progress and none was made
RunIdle ==
  /\ defaultProviders = FALSE
  /\ ticks = 0
  /\ project = NoDoc
  /\ searchResults = {}
  /\ deliveryLogs = {}
  /\ emails = {}
  /\ calls = 0
  /\ pc = "idle"
  /\ run = NoRun
  /\ result = NoResult
  /\ obs = NoObs

(***************************************************************************)
(* The search history store on its own: any sequence of getSearchHistory   *)
(* and updateSearchHistory calls of the runs of one project, one at a time *)
(***************************************************************************)
\* number of updateSearchHistory calls in one behaviour
MaxUpdates == 2

\* a ProcessedUrl as the engine builds it from an accepted or rejected result
ProcessedUrlOf(u, score, included) ==
  [ url |-> u, normalizedUrl |-> normalizeUrl(u), timesFound |-> 1,
    lastRelevancyScore |-> score, wasIncluded |-> included ]

\* the newUrls arguments of updateSearchHistory
NewUrlsMenu ==
  { << >>,
    << ProcessedUrlOf(U1, 90, TRUE) >>,
    << ProcessedUrlOf(U2, 40, FALSE), ProcessedUrlOf(U1, 70, TRUE) >>,
    << ProcessedUrlOf(U4, 40, FALSE), ProcessedUrlOf(U1, 40, FALSE) >>,
    << ProcessedUrlOf(U5, 90, TRUE) >> }

\* the queryPerformance arguments of updateSearchHistory: Maps of
\* query -> { relevant, total } in insertion order
QueryPerformanceMenu ==
  { << >>,
    << [query |-> "q1", relevant |-> 1, total |-> 2] >>,
    << [query |-> "q1", relevant |-> 0, total |-> 0] >>,
    << [query |-> "q2", relevant |-> 1, total |-> 1],
       [query |-> "q1", relevant |-> 0, total |-> 1] >>,
    << [query |-> "q3", relevant |-> 0, total |-> 0],
       [query |-> "q2", relevant |-> 2, total |-> 3] >> }

HistoryInit ==
  /\ RunIdle
  /\ now = StartClock
  /\ history = NoDoc
  /\ urlIn = NoUrl
  /\ sched = NoSched
  /\ retry = NoRetry
  /\ upd = NoUpd
  /\ cron = NoCron
  /\ brave = NoBrave

\* a run loads the history (part_006 line 370)
GetSearchHistory ==
  /\ history' = getSearchHistory(history)
  /\ history' # history
  /\ UNCHANGED << now, urlIn, sched, retry, upd >>
  /\ UNCHANGED << runVars, svcVars >>

\* a run stores what it found (part_006 line 627)
UpdateSearchHistory ==
  /\ upd.calls < MaxUpdates
  /\ \E newUrls \in NewUrlsMenu, queryPerformance \in QueryPerformanceMenu :
        /\ history' = updateSearchHistory(getSearchHistory(history), newUrls,
                                          queryPerformance)
        /\ upd' = [ calls |-> upd.calls + 1, before |-> getSearchHistory(history),
                    newUrls |-> newUrls, queryPerformance |-> queryPerformance ]
  /\ UNCHANGED << now, urlIn, sched, retry >>
  /\ UNCHANGED << runVars, svcVars >>

HistoryNext == GetSearchHistory \/ UpdateSearchHistory

SpecHistory == HistoryInit /\ [][HistoryNext]_vars

(***************************************************************************)
(* The deduplication keys on their own: a URL string is handed to          *)
(* normalizeUrl and to the orchestrator's key expression                   *)
(***************************************************************************)
\* number of www. labels in front of the host of a URL string
MaxWww == 2
\* number of tokens of the path of a URL string
MaxPathLen == 3

\* the sequences over T of length at most n
SeqsUpTo(T, n) == UNION { [1..k -> T] : k \in 0..n }

\* host names: www. labels, in either case, in front of the registered name
HostInputs ==
  { w \o << h >> : w \in SeqsUpTo({"www.", "WWW."}, MaxWww), h \in {"ex.com", "EX.com"} }

\* paths: absent, or a "/" followed by segments and slashes
PathInputs ==
  { << >> } \cup { << "/" >> \o p : p \in SeqsUpTo(PathTokens, MaxPathLen - 1) }

\* the URL strings result.url can be: with or without scheme, query and fragment
UrlInputs ==
  { pre \o h \o p \o q \o f :
      pre \in { << Scheme >>, << >> }, h \in HostInputs, p \in PathInputs,
      q \in { << QueryTok >>, << >> }, f \in { << FragTok >>, << >> } }

UrlInit ==
  /\ RunIdle
  /\ now = StartClock
  /\ history = NoDoc
  /\ urlIn \in UrlInputs
  /\ sched = NoSched
  /\ retry = NoRetry
  /\ upd = NoUpd
  /\ cron = NoCron
  /\ brave = NoBrave

\* deduplicateResults: const normalizedUrl = normalizeUrl(result.url)
NormalizeUrl ==
  /\ urlIn' = normalizeUrl(urlIn)
  /\ urlIn' # urlIn
  /\ UNCHANGED << now, history, sched, retry, upd >>
  /\ UNCHANGED << runVars, svcVars >>

\* orchestrator: const normalizedUrl = item.url.toLowerCase().replace(/\/$/, "")
DedupKey ==
  /\ urlIn' = OrchKey(urlIn)
  /\ urlIn' # urlIn
  /\ UNCHANGED << now, history, sched, retry, upd >>
  /\ UNCHANGED << runVars, svcVars >>

UrlNext == NormalizeUrl \/ DedupKey

SpecUrl == UrlInit /\ [][UrlNext]_vars

(***************************************************************************)
(* The scheduling utilities on their own: validateFrequency and            *)
(* calculateNextRunAt are called while the clock runs                      *)
(***************************************************************************)
\* number of clock ticks of one minute in one behaviour
MaxSchedTicks == 3

\* Date.now() of the first state: 08:58 UTC on the eleventh day of the year
SchedStart == 10 * oneDayMs + (8 * 60 + 58) * minuteMs

FrequencyMenu == { "daily", "weekly", "monthly" }

\* project.deliveryTime, "HH:MM" split at ":" and mapped to numbers
DeliveryTimeMenu ==
  { [hours |-> 9, minutes |-> 0], [hours |-> 0, minutes |-> 0],
    [hours |-> 23, minutes |-> 45] }

\* project.timezone: UTC, UTC-05:00, UTC+05:30
TimezoneMenu == { 0, -300, 330 }

\* time since the last run, for the lastRunAt argument of validateFrequency
ElapsedMenu ==
  { 23 * 60 * minuteMs, oneDayMs - 1, oneDayMs, 25 * 60 * minuteMs, 8 * oneDayMs }

\* time since the start of the run, for the lastRunAt argument of calculateNextRunAt
RunDurationMenu == { 2 * minuteMs, 25 * 60 * minuteMs }

SchedInit ==
  /\ RunIdle
  /\ now = SchedStart
  /\ history = NoDoc
  /\ urlIn = NoUrl
  /\ sched = NoSched
  /\ retry = NoRetry
  /\ upd = NoUpd
  /\ cron = NoCron
  /\ brave = NoBrave

\* a minute passes
SchedTick ==
  /\ now < SchedStart + MaxSchedTicks * minuteMs
  /\ now' = now + minuteMs
  /\ UNCHANGED << history, urlIn, sched, retry, upd >>
  /\ UNCHANGED << runVars, svcVars >>

\* validateFrequency(frequency, lastRunAt) is called
ValidateFrequency ==
  /\ \E frequency \in FrequencyMenu, lastRunAt \in {0} \cup { now - e : e \in ElapsedMenu } :
        sched' = [NoSched EXCEPT !.fn = "validateFrequency", !.frequency = frequency,
                                 !.lastRunAt = lastRunAt, !.at = now,
                                 !.valid = validateFrequency(frequency, lastRunAt, now)]
  /\ UNCHANGED << now, history, urlIn, retry, upd >>
  /\ UNCHANGED << runVars, svcVars >>

\* calculateNextRunAt(frequency, deliveryTime, timezone, lastRunAt) is called
CalculateNextRunAt ==
  /\ \E frequency \in FrequencyMenu, deliveryTime \in DeliveryTimeMenu,
        timezone \in TimezoneMenu,
        lastRunAt \in {0} \cup { now - d : d \in RunDurationMenu } :
        sched' = [NoSched EXCEPT !.fn = "calculateNextRunAt", !.frequency = frequency,
                                 !.deliveryTime = deliveryTime, !.timezone = timezone,
                                 !.lastRunAt = lastRunAt, !.at = now,
                                 !.nextRunAt = calculateNextRunAt(frequency, deliveryTime,
                                                                  timezone, lastRunAt, now)]
  /\ UNCHANGED << now, history, urlIn, retry, upd >>
  /\ UNCHANGED << runVars, svcVars >>

SchedNext == SchedTick \/ ValidateFrequency \/ CalculateNextRunAt

SpecSched == SchedInit /\ [][SchedNext]_vars

(***************************************************************************)
(* The retry wrappers on their own: one call of generateSearchQueriesWith- *)
(* Retry, analyzeRelevancyWithRetry, compileReportWithRetry or             *)
(* searchWithRetry, whose wrapped operation succeeds or fails each time    *)
(***************************************************************************)
\* largest maxRetries argument of a call
MaxRetries == 6

\* the wrappers and the text their final error starts with
RetryWrappers ==
  { "generateSearchQueriesWithRetry", "analyzeRelevancyWithRetry",
    "compileReportWithRetry", "searchWithRetry" }

FailureText(fn) ==
  CASE fn = "generateSearchQueriesWithRetry" -> "Failed to generate queries after"
    [] fn = "analyzeRelevancyWithRetry" -> "Failed to analyze relevancy after"
    [] fn = "compileReportWithRetry" -> "Failed to compile report after"
    [] fn = "searchWithRetry" -> "Failed to search after"

\* error.message of a failure of the wrapped operation
ErrorMessages == { "rate limited", "timeout" }

\* the delay is not capped
Backoff_Uncapped(attempt) == 1000 * 2 ^ (attempt - 1)

\* const delay = Math.min(1000 * Math.pow(2, attempt - 1), 10000)
Backoff(attempt) == Min(1000 * 2 ^ (attempt - 1), 10000)

RetryInit ==
  /\ RunIdle
  /\ now = StartClock
  /\ history = NoDoc
  /\ urlIn = NoUrl
  /\ sched = NoSched
  /\ retry = NoRetry
  /\ upd = NoUpd
  /\ cron = NoCron
  /\ brave = NoBrave

\* a wrapper is called: let lastError = null; attempt = 1
RetryCall ==
  /\ retry.fn = None
  /\ \E fn \in RetryWrappers, maxRetries \in 1..MaxRetries :
        retry' = [NoRetry EXCEPT !.fn = fn, !.maxRetries = maxRetries, !.attempt = 1,
                                 !.outcome = "running"]
  /\ UNCHANGED << now, history, urlIn, sched, upd >>
  /\ UNCHANGED << runVars, svcVars >>

\* one pass of the loop body: the wrapped operation is awaited; its result is
\* returned, or its error is kept, the delay is awaited unless this was the
\* last attempt, and attempt is incremented
RetryAttempt ==
  /\ retry.outcome = "running"
  /\ retry.attempt <= retry.maxRetries
  /\ \/ retry' = [retry EXCEPT !.invocations = @ + 1, !.outcome = "returned"]
     \/ \E error \in ErrorMessages :
          retry' = [retry EXCEPT
                      !.invocations = @ + 1,
                      !.lastError = error,
                      !.failures = Append(@, error),
                      !.delays = IF retry.attempt < retry.maxRetries
                                 THEN Append(@, Backoff(retry.attempt)) ELSE @,
                      !.attempt = @ + 1]
  /\ UNCHANGED << now, history, urlIn, sched, upd >>
  /\ UNCHANGED << runVars, svcVars >>

\* the loop is left: throw new Error(`Failed ... after ${maxRetries} attempts: ${lastError?.message}`)
RetryExhausted ==
  /\ retry.outcome = "running"
  /\ retry.attempt > retry.maxRetries
  /\ retry' = [retry EXCEPT
                 !.outcome = "threw",
                 !.message = [text |-> FailureText(retry.fn),
                              attempts |-> retry.maxRetries,
                              cause |-> retry.lastError]]
  /\ UNCHANGED << now, history, urlIn, sched, upd >>
  /\ UNCHANGED << runVars, svcVars >>

RetryNext == RetryCall \/ RetryAttempt \/ RetryExhausted

SpecRetry == RetryInit /\ [][RetryNext]_vars

\* a promise that is awaited settles, and the timer of a delay fires
SpecRetryLive == SpecRetry /\ WF_vars(RetryAttempt) /\ WF_vars(RetryExhausted)

(***************************************************************************)
(* The scheduler process (apps/scheduler): cron fires every minute and     *)
(* runs the pre-run, delivery and retry jobs in parallel; a job that is    *)
(* still running when the next minute comes runs beside the new ones.  A   *)
(* research run is reduced to its reads and writes of the project document *)
(* and to its outcome; of a delivery log only its existence is kept.       *)
(***************************************************************************)
\* number of cron firings in one behaviour
MaxCronTicks == 4

\* the projects of the user, in the order a query returns them
ProjectIds == << "A", "B" >>

\* getCheckWindowMs(): SCHEDULER_CHECK_WINDOW_MINUTES is not set
getCheckWindowMs == 15 * 60 * 1000

\* the delivery time and the timezone of the projects: 09:00 UTC
CronDeliveryTime == [hours |-> 9, minutes |-> 0]
CronTimezone == 0

\* the first delivery time: 09:00 on the first day of the clock
FirstRunAt == 9 * 60 * minuteMs

\* the time the scheduler process starts: a minute before the pre-run window of
\* the first delivery opens, or a minute before the delivery itself
CronStartMenu == { FirstRunAt - getCheckWindowMs - minuteMs, FirstRunAt - minuteMs }

\* the cadence of each project
CronFrequency == [p \in { "A", "B" } |-> IF p = "A" THEN "daily" ELSE "weekly"]

\* the fields of a project document that the scheduler and the research run use,
\* for an active project that never ran; preparedDeliveryLogId and deliveryLogId
\* are TRUE when they hold the id of a delivery log; lastRunAtBy records which
\* update wrote lastRunAt
CronProject(frequency) ==
  [ status |-> "active", frequency |-> frequency, lastRunAt |-> 0, lastRunAtBy |-> None,
    nextRunAt |-> FirstRunAt, preparedDeliveryLogId |-> FALSE, lastError |-> None ]

\* runResearchPrerunJob lines 258-276: the query and the filter on its documents
PrerunDue(d, t) ==
  /\ d.status = "active"
  /\ d.nextRunAt >= t + (getCheckWindowMs - 2 * 60 * 1000)
  /\ d.nextRunAt <= t + getCheckWindowMs
  /\ ~d.preparedDeliveryLogId

\* runDeliveryJob lines 363-381
DeliveryDue(d, t) ==
  /\ d.status = "active"
  /\ d.nextRunAt <= t
  /\ d.preparedDeliveryLogId

\* runRetryJob lines 472-490
RetryDue(d, t) ==
  /\ d.status = "active"
  /\ d.nextRunAt <= t
  /\ ~d.preparedDeliveryLogId

Due(kind, d, t) ==
  CASE kind = "prerun" -> PrerunDue(d, t)
    [] kind = "delivery" -> DeliveryDue(d, t)
    [] kind = "retry" -> RetryDue(d, t)

JobKinds == { "prerun", "delivery", "retry" }

\* projectsToRun / projectsToDeliver / projectsToRetry of a job started at t: the
\* documents as they were read, of which the job later uses the id, the prepared
\* delivery log and the last error
ProjectsOfJob(kind, projects, t) ==
  LET ids == SelectSeq(ProjectIds, LAMBDA p : Due(kind, projects[p], t))
  IN [i \in 1..Len(ids) |->
        [ id |-> ids[i],
          preparedDeliveryLogId |-> projects[ids[i]].preparedDeliveryLogId,
          lastError |-> projects[ids[i]].lastError ]]

\* a job started at t over the projects it found; it is about to handle the first
NewJob(kind, projects, t) ==
  [ kind |-> kind, now |-> t, queue |-> ProjectsOfJob(kind, projects, t), pc |-> "next",
    startedAt |-> 0, statusAtStart |-> None, guardRead |-> None, outcome |-> None,
    deliveryLogId |-> FALSE ]

Earliest(S) == CHOOSE t \in S : \A u \in S : t <= u

\* the next cron firing that matters: the next minute while a job is running,
\* else the first minute at which a job finds a project (the firings before it
\* find none and change nothing)
NextFiring ==
  LET soon == now + minuteMs
      times == { t \in { soon } \cup
                       { cron.projects[p].nextRunAt - getCheckWindowMs : p \in DOMAIN cron.projects }
                       \cup { cron.projects[p].nextRunAt : p \in DOMAIN cron.projects } :
                 /\ t >= soon
                 /\ \E kind \in JobKinds, p \in DOMAIN cron.projects :
                       Due(kind, cron.projects[p], t) }
  IN IF cron.jobs # {} \/ times = {} THEN soon ELSE Earliest(times)

CronInit ==
  /\ RunIdle
  /\ now \in CronStartMenu
  /\ history = NoDoc
  /\ urlIn = NoUrl
  /\ sched = NoSched
  /\ retry = NoRetry
  /\ upd = NoUpd
  /\ cron = [NoCron EXCEPT !.projects =
               [p \in Range(ProjectIds) |-> CronProject(CronFrequency[p])]]
  /\ brave = NoBrave

\* lines 595-617 and 682-684: cron fires and runSchedulerJob starts the three jobs,
\* each of which reads the projects it will handle; a job that finds none returns.
\* A database update takes less than a minute: the jobs of earlier firings that
\* still run are all inside a research run
runSchedulerJob ==
  /\ cron.ticks < MaxCronTicks
  /\ \A j \in cron.jobs : j.pc = "research"
  /\ \/ cron.jobs # {}
     \/ \E kind \in JobKinds, p \in DOMAIN cron.projects :
          Due(kind, cron.projects[p], NextFiring)
  /\ now' = NextFiring
  /\ cron' = [cron EXCEPT
                !.ticks = @ + 1,
                !.jobs = @ \cup { j \in { NewJob(kind, cron.projects, NextFiring) :
                                          kind \in JobKinds } : j.queue # << >> }]
  /\ UNCHANGED << history, urlIn, sched, retry, upd, brave >>
  /\ UNCHANGED runVars

\* the job has handled the project at the head of its list
NextProject(j) ==
  IF Len(j.queue) = 1 THEN cron.jobs \ { j }
  ELSE (cron.jobs \ { j }) \cup
         { [j EXCEPT !.queue = Tail(@), !.pc = "next", !.startedAt = 0,
                     !.statusAtStart = None, !.guardRead = None, !.outcome = None,
                     !.deliveryLogId = FALSE] }

\* executeProjectResearch lines 96-123: the project is set to running, whatever
\* its status is by now, and executeResearchForProject is called; lines 108-137
\* and 646-682 of it: the project is loaded and the frequency guard is applied
\* to its lastRunAt; a rejected run goes through the catch block and returns a
\* failed result
StartProjectResearch ==
  /\ \E j \in cron.jobs :
        /\ j.kind \in { "prerun", "retry" }
        /\ j.pc = "next"
        /\ LET p == Head(j.queue).id
               d == cron.projects[p]
           IN IF validateFrequency(d.frequency, d.lastRunAt, now)
              THEN cron' = [cron EXCEPT
                              !.projects[p].status = "running",
                              !.jobs = (@ \ { j }) \cup
                                 { [j EXCEPT !.pc = "research", !.startedAt = now,
                                             !.statusAtStart = d.status] }]
              ELSE cron' = [cron EXCEPT
                              !.projects[p].lastRunAt = now,
                              !.projects[p].lastRunAtBy = "catch",
                              !.projects[p].status = "error",
                              !.projects[p].lastError =
                                 "Project cannot be run more than once per day",
                              !.jobs = (@ \ { j }) \cup
                                 { [j EXCEPT !.pc = "returned", !.startedAt = now,
                                             !.statusAtStart = d.status,
                                             !.guardRead = d.lastRunAtBy,
                                             !.outcome = "rejected"] }]
  /\ UNCHANGED << now, history, urlIn, sched, retry, upd, brave >>
  /\ UNCHANGED runVars

\* executeResearchForProject lines 146-645 and 646-682: the run fails and its catch
\* block marks the project, or it succeeds, with a delivery log when it kept
\* results and without one when it kept none, and schedules the next run
ResearchRun ==
  /\ \E j \in cron.jobs :
        /\ j.pc = "research"
        /\ LET p == Head(j.queue).id
               d == cron.projects[p]
               succeeded ==
                 [d EXCEPT !.lastRunAt = j.startedAt,
                           !.lastRunAtBy = "research",
                           !.nextRunAt = calculateNextRunAt(d.frequency, CronDeliveryTime,
                                                            CronTimezone, j.startedAt, now)
                                           * minuteMs,
                           !.status = "active"]
           IN \/ cron' = [cron EXCEPT
                            !.projects[p].lastRunAt = j.startedAt,
                            !.projects[p].lastRunAtBy = "catch",
                            !.projects[p].status = "error",
                            !.projects[p].lastError = "Failed to generate queries after 3 attempts",
                            !.jobs = (@ \ { j }) \cup
                               { [j EXCEPT !.pc = "returned", !.outcome = "failed"] }]
              \/ cron' = [cron EXCEPT
                            !.projects[p] = succeeded,
                            !.jobs = (@ \ { j }) \cup
                               { [j EXCEPT !.pc = "returned", !.outcome = "results",
                                           !.deliveryLogId = TRUE] }]
              \/ cron' = [cron EXCEPT
                            !.projects[p] = succeeded,
                            !.jobs = (@ \ { j }) \cup
                               { [j EXCEPT !.pc = "returned", !.outcome = "noResults"] }]
  /\ UNCHANGED << now, history, urlIn, sched, retry, upd, brave >>
  /\ UNCHANGED runVars

\* executeProjectResearch lines 125-160 called with status "pending", then
\* runResearchPrerunJob lines 296-327: a delivery log is set to pending and kept
\* as the prepared one; without a delivery log the running status is cleared
PrerunAfterResearch ==
  /\ \E j \in cron.jobs :
        /\ j.kind = "prerun"
        /\ j.pc = "returned"
        /\ LET p == Head(j.queue).id
           IN IF j.deliveryLogId
              THEN cron' = [cron EXCEPT
                              !.projects[p].preparedDeliveryLogId = j.deliveryLogId,
                              !.projects[p].status = "active",
                              !.jobs = NextProject(j)]
              ELSE cron' = [cron EXCEPT
                              !.projects[p].status = "active",
                              !.jobs = NextProject(j)]
  /\ UNCHANGED << now, history, urlIn, sched, retry, upd, brave >>
  /\ UNCHANGED runVars

\* executeProjectResearch lines 125-160 called with status "success", then
\* runRetryJob lines 512-575: with a delivery log the project is rescheduled;
\* without one an admin notification is created and the project is set to error
RetryAfterResearch ==
  /\ \E j \in cron.jobs :
        /\ j.kind = "retry"
        /\ j.pc = "returned"
        /\ LET p == Head(j.queue).id
               d == cron.projects[p]
               nextRunAt == calculateNextRunAt(d.frequency, CronDeliveryTime, CronTimezone,
                                               j.now, now) * minuteMs
           IN IF j.deliveryLogId
              THEN cron' = [cron EXCEPT
                              !.projects[p].lastRunAt = j.now,
                              !.projects[p].lastRunAtBy = "retry",
                              !.projects[p].nextRunAt = nextRunAt,
                              !.projects[p].status = "active",
                              !.projects[p].lastError = None,
                              !.jobs = NextProject(j)]
              ELSE cron' = [cron EXCEPT
                              !.notifications = @ \cup
                                 { [ projectId |-> p,
                                     errorMessage |->
                                       IF Head(j.queue).lastError # None
                                       THEN Head(j.queue).lastError
                                       ELSE "Research execution failed",
                                     retryCount |-> 2 ] },
                              !.projects[p].lastRunAt = j.now,
                              !.projects[p].lastRunAtBy = "retry",
                              !.projects[p].nextRunAt = nextRunAt,
                              !.projects[p].status = "error",
                              !.jobs = NextProject(j)]
  /\ UNCHANGED << now, history, urlIn, sched, retry, upd, brave >>
  /\ UNCHANGED runVars

\* runDeliveryJob lines 395-444: the prepared delivery log is marked delivered
\* and the project is rescheduled
DeliverProject ==
  /\ \E j \in cron.jobs :
        /\ j.kind = "delivery"
        /\ j.pc = "next"
        /\ LET p == Head(j.queue).id
               d == cron.projects[p]
           IN cron' = [cron EXCEPT
                         !.projects[p].lastRunAt = j.now,
                         !.projects[p].lastRunAtBy = "delivery",
                         !.projects[p].nextRunAt =
                            calculateNextRunAt(d.frequency, CronDeliveryTime, CronTimezone,
                                               j.now, now) * minuteMs,
                         !.projects[p].preparedDeliveryLogId = FALSE,
                         !.jobs = NextProject(j)]
  /\ UNCHANGED << now, history, urlIn, sched, retry, upd, brave >>
  /\ UNCHANGED runVars

CronNext ==
  \/ runSchedulerJob
  \/ StartProjectResearch
  \/ ResearchRun
  \/ PrerunAfterResearch
  \/ RetryAfterResearch
  \/ DeliverProject

SpecCron == CronInit /\ [][CronNext]_vars

(***************************************************************************)
(* The rate limiter of brave-search.ts: searchWeb calls of one process,    *)
(* made at any time, also while earlier calls are waiting                  *)
(***************************************************************************)
\* clock ticks in one behaviour
MaxBraveTicks == 8
\* searchWeb calls in one behaviour
MaxSearchCalls == 3
\* the clock advances in steps of 500 ms
BraveTickMs == 500

\* const MIN_REQUEST_INTERVAL = 2500
MIN_REQUEST_INTERVAL == 2500

BraveInit ==
  /\ RunIdle
  /\ now = StartClock
  /\ history = NoDoc
  /\ urlIn = NoUrl
  /\ sched = NoSched
  /\ retry = NoRetry
  /\ upd = NoUpd
  /\ cron = NoCron
  /\ brave = NoBrave

\* time passes
BraveTick ==
  /\ brave.ticks < MaxBraveTicks
  /\ now' = now + BraveTickMs
  /\ brave' = [brave EXCEPT !.ticks = @ + 1]
  /\ UNCHANGED << history, urlIn, sched, retry, upd, cron >>
  /\ UNCHANGED runVars

\* lines 51 and 168 on: lastRequestTime = Date.now(), applyRateLimit returns and
\* searchWeb sends its request
SendRequest(b) ==
  [b EXCEPT !.lastRequestTime = now, !.requests = Append(@, now)]

\* lines 161-168 and 41-51: searchWeb is called and applyRateLimit runs up to its
\* await: it reads the clock and lastRequestTime and either sets a timer for the
\* time that is missing or goes on at once
SearchWebCall ==
  /\ brave.calls < MaxSearchCalls
  /\ LET timeSinceLastRequest == now - brave.lastRequestTime
         waitTime == MIN_REQUEST_INTERVAL - timeSinceLastRequest
         b == [brave EXCEPT !.calls = @ + 1]
     IN brave' = IF timeSinceLastRequest < MIN_REQUEST_INTERVAL
                 THEN [b EXCEPT !.waiting = @ \cup { [call |-> b.calls,
                                                       due |-> now + waitTime] }]
                 ELSE SendRequest(b)
  /\ UNCHANGED << now, history, urlIn, sched, retry, upd, cron >>
  /\ UNCHANGED runVars

\* lines 47-51: the timer of a waiting call fires, not before its time
TimerFires ==
  /\ \E w \in brave.waiting :
        /\ now >= w.due
        /\ brave' = SendRequest([brave EXCEPT !.waiting = @ \ {w}])
  /\ UNCHANGED << now, history, urlIn, sched, retry, upd, cron >>
  /\ UNCHANGED runVars

BraveNext == BraveTick \/ SearchWebCall \/ TimerFires

SpecBrave == BraveInit /\ [][BraveNext]_vars

(***************************************************************************)
(* Properties                                                              *)
(***************************************************************************)
\* a call of executeResearchForProject has returned a successful result
Succeeded == pc = "done" /\ result.kind = "returned" /\ result.success

\* a call of executeResearchForProject has returned a failed result
Failed == pc = "done" /\ result.kind = "returned" /\ ~result.success

FinalUrls == { result.relevantResults[i].url : i \in 1..Len(result.relevantResults) }

\* C1: a search result whose URL normalizes to a normalizedUrl of the persisted
\* history is neither sent to content extraction nor part of the final
\* relevantResults of the run
C1_CrossRunDedup ==
  /\ \A u \in obs.extracted : normalizeUrl(u) \notin obs.historyAtStart
  /\ Succeeded => \A u \in FinalUrls : normalizeUrl(u) \notin obs.historyAtStart

\* C2: no item the provider answered isRelevant = false for is accepted, in any
\* iteration, nor part of the final relevantResults
C2_IrrelevantNeverIncluded ==
  /\ \A i \in 1..Len(obs.accumulated) : obs.accumulated[i].url \notin obs.scoredFalse
  /\ Succeeded => FinalUrls \cap obs.scoredFalse = {}

\* a run ended with results although the provider rejected an item with a score
\* above that of an included result
C2_Witness ==
  /\ Succeeded
  /\ U1 \in obs.scoredFalse
  /\ Len(result.relevantResults) > 0
  /\ result.relevantResults[1].relevancyScore < 90

\* C3: every item of the final relevantResults has a relevancyScore at or above
\* the run's relevancy threshold
C3_FinalScoresReachThreshold ==
  Succeeded =>
    \A i \in 1..Len(result.relevantResults) :
      result.relevantResults[i].relevancyScore >= run.relevancyThreshold

\* s is sorted by relevancyScore, non-increasing
NonIncreasing(s) ==
  \A i, j \in 1..Len(s) : i < j => s[i].relevancyScore >= s[j].relevancyScore

\* final is made of Len(final) distinct positions of accumulated, and no position
\* left out holds a score strictly above that of an included one
TopOf(final, accumulated) ==
  \E f \in [1..Len(final) -> 1..Len(accumulated)] :
    /\ \A i, j \in 1..Len(final) : i # j => f[i] # f[j]
    /\ \A i \in 1..Len(final) : accumulated[f[i]] = final[i]
    /\ \A k \in 1..Len(accumulated) :
         (\A i \in 1..Len(final) : f[i] # k) =>
           \A i \in 1..Len(final) :
             accumulated[k].relevancyScore <= final[i].relevancyScore

\* C4: the final relevantResults are the results accumulated over all
\* iterations, sorted by score non-increasing and truncated to maxResults
C4_SortedAndTruncated ==
  Succeeded =>
    /\ Len(result.relevantResults) = Min(run.maxResults, Len(obs.accumulated))
    /\ NonIncreasing(result.relevantResults)
    /\ TopOf(result.relevantResults, obs.accumulated)

\* more results than maxResults were accumulated, and not in the order of the scores
C4_Witness ==
  /\ Succeeded
  /\ Len(obs.accumulated) > run.maxResults
  /\ ~NonIncreasing(obs.accumulated)

\* C5: once minResults results are accumulated at the end of iteration k, no
\* further query generation or search happens and iterationsUsed is k
C5_StopsAtMinResults ==
  obs.minReachedAt # 0 =>
    /\ obs.generateCalls = obs.minReachedAt
    /\ obs.searchCalls = obs.minReachedAt
    /\ Succeeded => result.iterationsUsed = obs.minReachedAt

\* a run stopped in its second iteration because minResults were reached
C5_Witness ==
  /\ Succeeded
  /\ obs.minReachedAt = 2
  /\ Len(obs.accumulated) >= run.minResults

\* a run stopped in its first iteration because minResults were reached
C5_WitnessFirst ==
  /\ Succeeded
  /\ obs.minReachedAt = 1
  /\ result.iterationsUsed = 1

\* C6: when the deduplicated candidate set of an iteration is empty, the loop
\* ends in that iteration: no extraction, no scoring, no later iteration, and
\* the iteration counter stays
C6_StopsWhenExhausted ==
  obs.exhaustedAt # 0 =>
    /\ obs.generateCalls = obs.exhaustedAt
    /\ obs.searchCalls = obs.exhaustedAt
    /\ << obs.extractCalls, obs.analyzeCalls >> = obs.exhaustedCalls
    /\ pc \notin { "generateQueries", "search", "filterSearchResults", "extract",
                   "analyzeRelevancy" }
    /\ pc \notin { "catch", "done", "idle" } => run.iteration = obs.exhaustedAt
    /\ Succeeded => result.iterationsUsed = obs.exhaustedAt

\* a run in whose second iteration the searches returned only processed URLs
C6_Witness ==
  /\ Succeeded
  /\ obs.exhaustedAt = 2
  /\ obs.extractCalls = 1

\* C7: once the providers are resolved the call returns a ResearchResult, and a
\* failed result carries a non-empty error
C7_NeverThrows ==
  (pc = "done" /\ obs.defaultsSet) =>
    /\ result.kind = "returned"
    /\ ~result.success => result.error \notin { None, "" }

\* a failed result was returned although the catch block could not update the project
C7_Witness ==
  /\ Failed
  /\ project.exists
  /\ project.status # "error"
  /\ result.error = "firestore unavailable"

\* the fields of the project record the frequency guard must leave alone
GuardedFields(p) == << p.status, p.lastRunAt, p.nextRunAt, p.lastError >>

\* C8: a run rejected by the frequency guard leaves status, lastRunAt, nextRunAt
\* and lastError of the project as they were before the call
C8_GuardLeavesProject ==
  (pc = "done" /\ obs.guardRejected) =>
    GuardedFields(project) = GuardedFields(obs.dbAtStart[1])

\* C9: a project that was running when the run started is active or error when
\* the run has completed
C9_NeverLeftRunning ==
  (pc = "done" /\ obs.dbAtStart[1].exists /\ obs.dbAtStart[1].status = "running") =>
    project.status \in { "active", "error" }

C10_WitnessProviders ==
  /\ pc = "done"
  /\ ~obs.defaultsSet
  /\ result.kind = "threw"

\* C11: a call that supplies both options.llmProvider and options.searchProvider
\* does not fail because the default providers were never set
C11_ProvidersOverridable ==
  (pc = "done" /\ run.options.providers /\ ~obs.defaultsSet) => result.kind # "threw"

\* C12: a successful result carries relevantResults and, when they are not
\* empty, a report
C12_SuccessCarriesReport ==
  Succeeded =>
    /\ Len(result.relevantResults) = Len(run.sortedResults)
    /\ Len(result.relevantResults) > 0 => result.report.exists

\* a successful result with results and the report compiled over them
C12_Witness ==
  /\ Succeeded
  /\ Len(result.relevantResults) = 2
  /\ result.report.exists
  /\ result.report.resultCount = 2

\* C13: when no relevant result survives, compileReport is not called and the
\* result carries a placeholder report with resultCount 0
C13_PlaceholderReport ==
  (Succeeded /\ Len(result.relevantResults) = 0) =>
    /\ obs.compileCalls = 0
    /\ result.report.exists
    /\ result.report.resultCount = 0

\* the delivery log and the search results the current call saved
LogsOfCall == { l \in deliveryLogs : l.call = calls }
ResultsOfCall == { s \in searchResults : s[1] = calls }

\* C14: a report email that fails or throws does not change the outcome of the
\* run: the run goes on to the history update, it fails only when a later step
\* fails, and when it succeeds the saved results and the delivery log are there
\* and the project is active, not error
C14_DeliveryFailureKeepsOutcome ==
  obs.emailOutcome = "failed" =>
    /\ pc = "catch" => run.error # "Failed to send email"
    /\ Failed => result.error # "Failed to send email"
    /\ LogsOfCall # {} /\ ResultsOfCall # {}
    /\ Succeeded => project.status = "active"

\* a run whose email could not be sent has returned success
C14_Witness ==
  /\ Succeeded
  /\ obs.emailOutcome = "failed"
  /\ project.status = "active"
  /\ LogsOfCall # {}
  /\ calls \notin emails

\* C15: when filterSearchResults throws, the run goes on to content extraction
\* with all capped candidates
C15_PreFilterFailsOpen ==
  obs.filterThrew =>
    /\ pc = "extract"
    /\ run.resultsToFetch = run.limitedResults
    /\ Len(run.resultsToFetch) > 0

\* filterSearchResults has thrown on two candidates and both are about to be fetched
C15_Witness ==
  /\ obs.filterThrew
  /\ pc = "extract"
  /\ run.resultsToFetch = << U1, U3 >>

\* the queries that have an entry in the Map searchMultiple returned
RespondedQueries == { run.searchResponses[i].query : i \in 1..Len(run.searchResponses) }

\* C16: when the search of a query fails, nothing is thrown, the returned Map has
\* an entry for every query whose search succeeded and none for the failed one,
\* and the results of the other queries go on to deduplication and analysis
C16_PerQueryIsolation ==
  obs.failedQueries # {} =>
    /\ pc \in { "filterSearchResults", "extract", "analyzeRelevancy" }
    /\ RespondedQueries = Range(run.queries) \ obs.failedQueries
    /\ Len(run.limitedResults) > 0
    /\ \A i \in 1..Len(run.limitedResults) :
         \E j \in 1..Len(run.searchResponses) :
           run.limitedResults[i] \in Range(run.searchResponses[j].results)

\* the search of q2 failed and the result of q1 is about to be analysed
C16_Witness ==
  /\ obs.failedQueries = {"q2"}
  /\ pc = "analyzeRelevancy"
  /\ run.filteredContents = << U4 >>

\* the messages of the three provider steps whose retries are exhausted
RetriesExhausted ==
  { "Failed to generate queries after 3 attempts",
    "Failed to analyze relevancy after 3 attempts",
    "Failed to compile report after 3 attempts" }

\* C17: when query generation, relevance scoring or report compilation fails
\* after its retries, the project is set to error with that message as lastError
\* and the failed result carries the same message
C17_ProviderFailureMarksProject ==
  (pc = "done" /\ obs.defaultsSet /\ run.error \in RetriesExhausted) =>
    /\ Failed
    /\ result.error = run.error
    /\ project.status = "error"
    /\ project.lastError = run.error

\* C18: a run that returns success = false has persisted no delivery log and has
\* sent no report email
C18_NoDeliveryOnFailure ==
  Failed => LogsOfCall = {} /\ calls \notin emails

\* the search history has an entry for the URL u
InHistory(u) ==
  /\ history.exists
  /\ \E i \in 1..Len(history.processedUrls) :
       \/ history.processedUrls[i].url = u
       \/ history.processedUrls[i].normalizedUrl \in { normalizeUrl(u), OrchKey(u) }

\* C19: after a successful run the search history holds every URL the run marked
\* as processed, not only those of the final relevantResults
C19_HistoryHoldsProcessed ==
  Succeeded => \A u \in obs.processed : InHistory(u)

\* C20: query performance is recorded for every query issued in every iteration
\* of a run, also for iterations that ended before the analysis
C20_EveryQueryTracked ==
  Succeeded =>
    \A q \in Range(run.allQueriesGenerated) :
      \E i \in 1..Len(run.queryPerformanceMap) : run.queryPerformanceMap[i].query = q

(***************************************************************************)
(* Properties of the search history store (SpecHistory)                    *)
(***************************************************************************)
\* C21: every QueryPerformance entry of the stored history has
\* successRate = relevantUrlsFound / urlsFound * 100 when urlsFound > 0 and
\* successRate = 0 when urlsFound = 0, whether it was just created or updated
\* by a later call (rates are fractions <<numerator, denominator>>)
C21_SuccessRateNeverStale ==
  history.exists =>
    \A k \in 1..Len(history.queryPerformance) :
      LET e == history.queryPerformance[k]
      IN IF e.urlsFound > 0
         THEN e.successRate[1] * e.urlsFound
                = e.relevantUrlsFound * 100 * e.successRate[2]
         ELSE e.successRate[1] = 0

\* an entry used by two calls has a success rate other than the one it had
\* before the second call
C21_Witness ==
  /\ upd.calls >= 2
  /\ \E k \in 1..Len(upd.before.queryPerformance) :
        LET old == upd.before.queryPerformance[k]
            e == history.queryPerformance[k]
        IN /\ e.timesUsed >= 2
           /\ e.urlsFound > 0
           /\ e.successRate[1] * old.successRate[2]
                # old.successRate[1] * e.successRate[2]

\* the normalized URLs of a history document: those of its processedUrls
NormalizedUrlsOf(h) ==
  IF h.exists
  THEN { h.processedUrls[k].normalizedUrl : k \in 1..Len(h.processedUrls) }
  ELSE {}

\* the keys of the urlIndex of a history document
UrlIndexOf(h) == IF h.exists THEN h.urlIndex ELSE {}

HitsOf(newUrls, n) == { i \in 1..Len(newUrls) : newUrls[i].normalizedUrl = n }

MaxOf(S) == CHOOSE x \in S : \A y \in S : y <= x

MinOf(S) == CHOOSE x \in S : \A y \in S : x <= y

\* entry e after the new URLs at positions hits of newUrls were merged into it
MergedUrl(e, newUrls, hits) ==
  IF hits = {} THEN e
  ELSE [e EXCEPT !.timesFound = @ + Cardinality(hits),
                 !.lastRelevancyScore = newUrls[MaxOf(hits)].lastRelevancyScore,
                 !.wasIncluded = @ \/ \E i \in hits : newUrls[i].wasIncluded]

\* the entry of the Map queryPerformance for query q
StatsOf(queryPerformance, q) ==
  queryPerformance[CHOOSE i \in 1..Len(queryPerformance) : queryPerformance[i].query = q]

C24_NormalizeIdempotent ==
  normalizeUrl(normalizeUrl(urlIn)) = normalizeUrl(urlIn)

\* position of the last token of the host of a parseable URL
HostEnd(u) == FirstIn(u, 2, {"/", QueryTok, FragTok}) - 1

\* position of the last token of the path of a parseable URL (HostEnd when absent)
PathEnd(u) == FirstIn(u, HostEnd(u) + 1, {QueryTok, FragTok}) - 1

\* String.prototype.toUpperCase on a host label
UpperTok(t) ==
  CASE t = "www." -> "WWW."
    [] t = "ex.com" -> "EX.com"
    [] OTHER -> t

\* the URLs that differ from the parseable URL u only in a query string, in a
\* fragment, in a leading www. on the host, in the letter case of the host, or
\* in a trailing slash on a non-root path
Variants(u) ==
  LET hostEnd == HostEnd(u)
      pathEnd == PathEnd(u)
  IN (IF QueryTok \notin Range(u)
      THEN { SubSeq(u, 1, pathEnd) \o << QueryTok >> \o SubSeq(u, pathEnd + 1, Len(u)) }
      ELSE {})
     \cup (IF FragTok \notin Range(u) THEN { u \o << FragTok >> } ELSE {})
     \cup { << Scheme, "www." >> \o Tail(u) }
     \cup { [i \in 1..Len(u) |-> IF i \in 2..hostEnd THEN UpperTok(u[i]) ELSE u[i]] }
     \cup (IF pathEnd > hostEnd + 1
          THEN { SubSeq(u, 1, pathEnd) \o << "/" >> \o SubSeq(u, pathEnd + 1, Len(u)) }
          ELSE {})

\* a URL of scheme, lower-case host without www. and a path without trailing slash
Canonical(u) ==
  /\ Parseable(u)
  /\ Len(u) > HostEnd(u)
  /\ Len(u) = PathEnd(u)
  /\ u[2] \notin {"www.", "WWW."}
  /\ \A i \in 2..HostEnd(u) : u[i] = LowerTok(u[i])
  /\ (u[Len(u)] = "/" => Len(u) = HostEnd(u) + 1)

\* C25: normalizeUrl maps a URL and every URL that differs from it only in
\* query string, fragment, a leading www. on the host, letter case of the host
\* or a trailing slash on a non-root path to the same string, and keeps scheme,
\* host and path otherwise
C25_EquivalentUrlsNormalizeEqual ==
  Parseable(urlIn) =>
    /\ \A v \in Variants(urlIn) : normalizeUrl(v) = normalizeUrl(urlIn)
    /\ Canonical(urlIn) => normalizeUrl(urlIn) = urlIn

\* C26: for every URL the orchestrator's in-run deduplication key, the key of
\* deduplicateResults (normalizeUrl) and the normalizedUrl stored for a result
\* in the search history are the same string
C26_DedupKeysAgree ==
  Parseable(urlIn) =>
    /\ OrchKey(urlIn) = normalizeUrl(urlIn)
    /\ ExtractedNormalizedUrl(urlIn) = normalizeUrl(urlIn)

(***************************************************************************)
(* Properties of the scheduling utilities (SpecSched)                      *)
(***************************************************************************)
\* C27: validateFrequency returns true iff lastRunAt is absent or at least 24
\* hours have passed since lastRunAt, whatever the frequency argument is
C27_ValidateFrequencyIsDailyFloor ==
  sched.fn = "validateFrequency" =>
    sched.valid = (sched.lastRunAt = 0 \/ sched.at - sched.lastRunAt >= 24 * 60 * 60 * 1000)

\* a weekly project whose last run was 25 hours ago is valid
C27_Witness ==
  /\ sched.fn = "validateFrequency"
  /\ sched.frequency = "weekly"
  /\ sched.lastRunAt # 0
  /\ sched.at - sched.lastRunAt = 25 * 60 * 60 * 1000
  /\ sched.valid

\* a monthly project whose last run was 23 hours ago is not valid
C27_WitnessTooSoon ==
  /\ sched.fn = "validateFrequency"
  /\ sched.frequency = "monthly"
  /\ sched.at - sched.lastRunAt = 23 * 60 * 60 * 1000
  /\ ~sched.valid

\* C28: the timestamp calculateNextRunAt returns is strictly later than the
\* reference time (its timestamp argument when given, otherwise the time of the
\* call), falls on HH:MM of the timezone, and is HH:MM of the reference day
\* when that is ahead of the reference time, otherwise that time advanced by
\* one period (times in minutes)
C28_NextRunFollowsReference ==
  sched.fn = "calculateNextRunAt" =>
    LET reference ==
          (IF sched.lastRunAt # 0 THEN sched.lastRunAt ELSE sched.at) \div minuteMs
        local == reference + sched.timezone
        delivery == sched.deliveryTime.hours * 60 + sched.deliveryTime.minutes
        today == (local \div minutesPerDay) * minutesPerDay + delivery
        expected == IF today > local THEN today
                    ELSE addFrequencyPeriod(today, sched.frequency)
    IN /\ sched.nextRunAt > reference
       /\ (sched.nextRunAt + sched.timezone) % minutesPerDay = delivery
       /\ sched.nextRunAt = expected - sched.timezone

(***************************************************************************)
(* Properties of the retry wrappers (SpecRetryLive)                        *)
(***************************************************************************)
\* the wrapped operation was invoked at most maxRetries times, once per failure
\* and once for a success; the k-th delay is min(1000 * 2^(k-1), 10000) ms and
\* there is one delay per failed attempt except the last possible one; an error
\* is thrown only after maxRetries failures and carries the last failure's message
RetryWithinBounds ==
  retry.fn # None =>
    /\ retry.invocations <= retry.maxRetries
    /\ retry.invocations
         = Len(retry.failures) + (IF retry.outcome = "returned" THEN 1 ELSE 0)
    /\ Len(retry.delays) = Min(Len(retry.failures), retry.maxRetries - 1)
    /\ \A k \in 1..Len(retry.delays) :
         retry.delays[k] = (IF 1000 * 2 ^ (k - 1) < 10000 THEN 1000 * 2 ^ (k - 1) ELSE 10000)
    /\ retry.outcome = "threw" =>
         /\ Len(retry.failures) = retry.maxRetries
         /\ retry.message.cause = retry.failures[retry.maxRetries]
         /\ retry.message.attempts = retry.maxRetries

\* C29: each retry wrapper invokes the wrapped operation at most maxRetries
\* times, makes no further attempt after the first success, waits
\* min(1000 * 2^(k-1), 10000) ms after the k-th failed attempt except the last,
\* throws after maxRetries failures an error carrying the last failure's
\* message, and every call ends by returning or by throwing
C29_RetryBoundedBackoff ==
  /\ []RetryWithinBounds
  /\ [][retry.outcome = "returned" => retry' = retry]_vars
  /\ (retry.fn # None) ~> (retry.outcome \in {"returned", "threw"})

\* a call with maxRetries = 6 failed six times, waited 1, 2, 4, 8 and 10 seconds
\* between the attempts and threw
C29_Witness ==
  /\ retry.outcome = "threw"
  /\ retry.maxRetries = 6
  /\ retry.delays = << 1000, 2000, 4000, 8000, 10000 >>
  /\ retry.message.cause = "timeout"

(***************************************************************************)
(* Properties of the research run (Spec), continued                        *)
(***************************************************************************)
\* C30: when the queries of iteration k have been generated, the generator was
\* given iteration number k: iteration 2 got the guidance for broader, less
\* restrictive terms and iteration 3 the guidance for very broad alternative
\* phrasings
C30_GeneratorToldIteration ==
  pc = "search" =>
    /\ run.generatorIteration = run.iteration
    /\ run.iteration = 2 =>
         run.iterationGuidance = "broader queries with less restrictive terms"
    /\ run.iteration = 3 =>
         run.iterationGuidance = "very broad queries with alternative phrasings"

(***************************************************************************)
(* Properties of the scheduler process (SpecCron)                          *)
(***************************************************************************)
\* the research executions of project p in flight: executeResearchForProject was
\* called by the job and has not returned
ExecutionsInFlight(p) ==
  { j \in cron.jobs : j.pc = "research" /\ Head(j.queue).id = p }

\* C31: under the scheduler no project has two research executions in flight at
\* the same time, and no execution is started for a project whose status is
\* running
C31_OneRunPerProject ==
  \A p \in DOMAIN cron.projects :
     /\ Cardinality(ExecutionsInFlight(p)) <= 1
     /\ \A j \in ExecutionsInFlight(p) : j.statusAtStart # "running"

\* C35: no run launched by the pre-run job or the retry job is rejected by the
\* frequency guard on a lastRunAt that was written by the delivery job or by the
\* catch block of a failed pre-run
C35_SchedulerRunsPassGuard ==
  \A j \in cron.jobs :
     j.outcome = "rejected" => j.guardRead \notin { "delivery", "catch" }

\* C36: when a job learns that the run it launched succeeded with zero results,
\* it leaves the project active and creates no admin notification
C36_ZeroResultRunCompletes ==
  [][\A j \in cron.jobs :
       (j.pc = "returned" /\ j.outcome = "noResults" /\ j \notin cron'.jobs)
       => /\ cron'.projects[Head(j.queue).id].status = "active"
          /\ cron'.notifications = cron.notifications]_vars

\* ---------------------------------------------------------------------------
\* Properties of the research loop: iteration count, extraction and duplicates
\* ---------------------------------------------------------------------------

\* C32: a successful run reports as iterationsUsed the number of iterations
\* it executed (the number of query generations), which never exceeds
\* maxIterations, also when the loop ends because the cap is exhausted; the
\* delivery log's iterationsRequired is the same number.
C32_IterationsUsedIsExecuted ==
  Succeeded =>
    /\ result.iterationsUsed = obs.generateCalls
    /\ result.iterationsUsed <= run.maxIterations

\* C33: within one run no URL is sent to content extraction in more than one
\* iteration. Every candidate that survives the cap is marked processed before
\* the LLM pre-filter and the extraction are called, and a URL sent to the
\* extraction shares its deduplication key with no URL that an earlier
\* iteration of the run sent there or kept as a candidate.
C33_ExtractedOncePerRun ==
  [][/\ pc' \in { "filterSearchResults", "extract" }
        => \A i \in 1..Len(run'.limitedResults) :
              OrchKey(run'.limitedResults[i]) \in run'.processedUrlsSet
     /\ obs'.extractCalls = obs.extractCalls + 1
        => \A u \in Range(run.resultsToFetch) :
              /\ \A v \in obs.extracted : OrchKey(u) # OrchKey(v)
              /\ \A v \in obs.processed \ Range(run.limitedResults) :
                    OrchKey(u) # OrchKey(v)]_vars

\* the first iteration sent a URL to the extraction and marked another one
\* processed that the LLM pre-filter dropped; the searches of the second
\* iteration returned no URL with a new key (every search outcome of the model
\* returns some URL), so that all of them were excluded and nothing was
\* extracted again
C33_Witness ==
  /\ obs.exhaustedAt = 2
  /\ obs.extractCalls = 1
  /\ obs.extracted # {}
  /\ obs.processed \ obs.extracted # {}

\* C34: an iteration whose searches returned new unique URLs of which none
\* survived the filtering (the excluded-keyword pre-filter, the extraction or
\* the keyword filter on the contents) does not end the loop: the loop is left
\* from the search step only when no new unique URL was found, and an
\* extraction step that leaves nothing goes on to the next iteration while
\* the cap is not reached.
C34_OnlyExhaustionTerminates ==
  [][/\ (pc = "search" /\ pc' # "filterSearchResults")
        => obs'.exhaustedAt = run.iteration
     /\ (pc = "extract" /\ pc' \notin { "analyzeRelevancy", "catch" }
                        /\ run.iteration < run.maxIterations)
        => (pc' = "generateQueries" /\ run'.iteration = run.iteration + 1)]_vars

\* C39: the final relevantResults of a run never contains two results with
\* the same normalizedUrl
C39_FinalResultsDistinct ==
  Succeeded =>
    \A i, j \in 1..Len(result.relevantResults) :
       result.relevantResults[i].normalizedUrl = result.relevantResults[j].normalizedUrl
       => i = j

\* ---------------------------------------------------------------------------
\* Properties of the search history store (SpecHistory), continued
\* ---------------------------------------------------------------------------

\* C38: after any sequence of updateSearchHistory calls on an initially empty
\* history, processedUrls holds at most one entry per normalizedUrl and
\* urlIndex has exactly those normalizedUrls as keys; queryPerformance holds
\* at most one entry per query and queryIndex[q] is the (0-based) position of
\* the entry whose query is q; totalUrlsProcessed is the number of entries of
\* processedUrls.
C38_HistoryIndexesConsistent ==
  history.exists =>
    /\ \A i, j \in 1..Len(history.processedUrls) :
          history.processedUrls[i].normalizedUrl = history.processedUrls[j].normalizedUrl
          => i = j
    /\ history.urlIndex =
          { history.processedUrls[i].normalizedUrl : i \in 1..Len(history.processedUrls) }
    /\ \A i, j \in 1..Len(history.queryPerformance) :
          history.queryPerformance[i].query = history.queryPerformance[j].query => i = j
    /\ DOMAIN history.queryIndex =
          { history.queryPerformance[i].query : i \in 1..Len(history.queryPerformance) }
    /\ \A i \in 1..Len(history.queryPerformance) :
          history.queryIndex[history.queryPerformance[i].query] = i - 1
    /\ history.totalUrlsProcessed = Len(history.processedUrls)

\* two updates were made, the second with two URLs of one normalizedUrl that
\* the history already held and with a query it already held
C38_Witness ==
  /\ upd.calls = MaxUpdates
  /\ Len(upd.before.processedUrls) > 0
  /\ \E i, j \in 1..Len(upd.newUrls) :
        /\ i # j
        /\ upd.newUrls[i].normalizedUrl = upd.newUrls[j].normalizedUrl
        /\ upd.newUrls[i].normalizedUrl \in upd.before.urlIndex
  /\ \E i \in 1..Len(upd.queryPerformance) :
        upd.queryPerformance[i].query \in DOMAIN upd.before.queryIndex
  /\ Len(history.processedUrls) >= 1
  /\ Len(history.queryPerformance) >= 2

\* ---------------------------------------------------------------------------
\* Properties of the rate limiter (SpecBrave)
\* ---------------------------------------------------------------------------

\* C37: any two requests that searchWeb sends to the Brave API start at least
\* MIN_REQUEST_INTERVAL (2500 ms) apart, also when several searchWeb calls are
\* in flight at the same time in one process
C37_RequestsSpaced ==
  \A i, j \in 1..Len(brave.requests) :
     i < j => brave.requests[j] - brave.requests[i] >= MIN_REQUEST_INTERVAL

============================================================================
